---------------------------- MODULE Spec2Model ----------------------------
(***************************************************************************)
(* Event service: the event lifecycle (Start / Finish / List) of           *)
(* pkg/event.  Requests run concurrently, one per process; every storage   *)
(* call (FindOne, InsertOne, FindOneAndUpdate, Find) is one atomic step    *)
(* of the document store, and a read of the wall clock (time.Now) that     *)
(* precedes a storage call is a step of its own, as it is a statement of   *)
(* its own in the code.  A request is issued with its first statement.     *)
(***************************************************************************)
EXTENDS Integers, Sequences, FiniteSets, TLC

(* ------------------------------ bounds -------------------------------- *)

\* number of requests that can be in flight at the same time
NumProcs == 2

\* total number of requests issued in one behaviour
MaxCalls == 4

\* number of rows the collection can hold
MaxEvents == 2

\* clock ticks per millisecond: time.Now has a finer resolution than the
\* millisecond resolution of a stored BSON DateTime
TicksPerMs == 2

\* largest offset and largest limit a List request is issued with
MaxPage == 1

\* the clock runs from the first tick of millisecond 1 to the first tick of
\* millisecond 2
MaxClock == 2 * TicksPerMs

\* number of rows of the collections List is checked on
ListRows == 3

\* largest offset and largest limit List is checked with on those collections
ListPage == 3

(* ----------------------------- constants ------------------------------ *)

\* State values of the model package
Active == 0

Finished == 1

Procs == 1..NumProcs

\* event types that pass validateEventType
Types == {"meeting", "call"}

\* the error values a service call returns
NoError == "nil"

ErrNoDocuments == "mongo.ErrNoDocuments"

\* what a storage call that fails returns: any error of the driver other than
\* mongo.ErrNoDocuments (a cancelled context, a lost connection)
StorageError == "storage error"

\* the error a storage call returns when the context of the request is
\* cancelled or its deadline passes while the call is under way
Canceled == "context canceled"

\* HTTP status codes of net/http
StatusOK == 200

StatusBadRequest == 400

StatusNotFound == 404

StatusInternalServerError == 500

\* a request that has not returned yet
NoRet == [err |-> "pending", val |-> <<>>]

\* a process without a request
NoReq == [op |-> "none", type |-> "", offset |-> 0, limit |-> 0]

\* the query of a request without offset and limit parameters: a parameter
\* is <<>> when the URL does not have it and <<text>> when it has it with
\* that text, a sequence of characters
NoQuery == [offset |-> <<>>, limit |-> <<>>]

\* a process without an HTTP exchange: no body or query read, no status chosen
NoHttp == [body |-> <<>>, query |-> NoQuery, status |-> 0]

VARIABLES
    store,      \* the collection: a sequence of documents in insertion order
    clock,      \* the wall clock: the value of the last time.Now()
    nextId,     \* the next ObjectID the driver generates
    pc,         \* where each process is in its request
    req,        \* the request each process executes
    now,        \* each process's local `now` / event.StartedAt
    ret,        \* what the service call returned to the handler
    http,       \* per process: the "type" of the JSON body the handler read
                \* (<<>> none, <<text>> the text, a sequence of characters),
                \* the offset and limit parameters of the URL, and the
                \* status code the handler answers with
    calls,      \* number of requests issued so far
    script,     \* the requests a scripted client sends, in order (<<>>: the
                \* clients send what they like)
    \* history variables (the program does not read them)
    issued,     \* Active rows of the request's type when it was issued
    alone,      \* no other request for the same type overlapped this one
    rival,      \* a Finish of the same type, issued while the type had an
                \* Active row, succeeded between this Finish's time.Now and
                \* its update
    last,       \* per type: what the latest request for it, a Start, returned
    raced,      \* some Start had another request for its type run between
                \* its FindActive and its Create
    finishLog,  \* the events successful Finish calls returned, in order
    \* the application around the service (cmd/event-service, internal/db)
    env,        \* what the process is started with: MONGO_URI, runtime.GOOS
                \* and whether the embedded mongod binary of the build is
                \* there (len(mongodData) > 0)
    mainPc,     \* where main is, inside getMongoURI and StartEmbeddedMongo too
    tempDir,    \* the temporary directory of StartEmbeddedMongo
    cmd,        \* the mongod process of StartEmbeddedMongo
    startRet,   \* what StartEmbeddedMongo returned
    uriRet,     \* what getMongoURI returned: mongoURI, mongoCleanup, err
    client,     \* the connection to MongoDB
    notified,   \* signal.Notify has been called
    sigPc,      \* where the goroutine of setupGracefulShutdown is
    exited      \* how the process ended, "" while it runs

\* the variables of the application around the service
appVars == <<env, mainPc, tempDir, cmd, startRet, uriRet, client, notified, sigPc, exited>>

vars == <<store, clock, nextId, pc, req, now, ret, http, calls, script,
          issued, alone, rival, last, raced, finishLog, appVars>>

(* ---------------------- the application's constants ------------------- *)

\* the URI StartEmbeddedMongo returns
EmbeddedURI == "mongodb://localhost:27017/events_db"

\* a value of MONGO_URI
ExternalURI == "mongodb://external:27017"

\* the values of runtime.GOOS StartEmbeddedMongo has a binary for
Supported == {"windows", "linux", "darwin"}

\* nothing returned yet
NoResult == [uri |-> "", cleanup |-> "pending", err |-> "pending"]

\* an error return of StartEmbeddedMongo and getMongoURI: "", nil, err
Failed(err) == [uri |-> "", cleanup |-> "nil", err |-> err]

\* the application while it serves requests with the embedded MongoDB
Serving ==
    /\ env = [MONGO_URI |-> "", goos |-> "linux", mongodData |-> TRUE]
    /\ mainPc = "startServer"
    /\ tempDir = "exists"
    /\ cmd = "running"
    /\ startRet = [uri |-> EmbeddedURI, cleanup |-> "cleanupFunc", err |-> NoError]
    /\ uriRet = [uri |-> EmbeddedURI, cleanup |-> "cleanupFunc", err |-> NoError]
    /\ client = "connected"
    /\ notified = TRUE
    /\ sigPc = "waiting"
    /\ exited = ""

(* ------------------------------ helpers ------------------------------- *)

\* A time.Time as the store holds it: BSON DateTime keeps milliseconds.
TruncMs(t) == (t \div TicksPerMs) * TicksPerMs

\* The Event struct.  finishedAt is a *time.Time: <<>> is nil.
Event(id, type, state, startedAt, finishedAt) ==
    [id |-> id, type |-> type, state |-> state,
     startedAt |-> startedAt, finishedAt |-> finishedAt]

\* positions of the documents matching {"type": t, "state": Active}
ActiveIdx(s, t) ==
    {i \in 1..Len(s) : s[i].type = t /\ s[i].state = Active}

ActiveCount(s, t) == Cardinality(ActiveIdx(s, t))

\* the processes with a Start or Finish for type t in flight, other than p
OthersOn(p, t) ==
    {q \in Procs \ {p} : req[q].op \in {"Start", "Finish"} /\ req[q].type = t}

\* pc values at which a Start sits between its FindActive and its InsertOne
InCreate == {"CreateNow", "CreateInsert"}

\* rows the requests in flight may still insert
PendingStarts == Cardinality({q \in Procs : pc[q] \in InCreate})

\* a storage step of a request for type t by p runs inside the
\* FindActive..Create window of another Start of the same type
Races(p, t) ==
    \E q \in OthersOn(p, t) : pc[q] \in InCreate

\* A request is served by the first free process (the processes are
\* interchangeable: a free one holds nothing).
Free(p) ==
    /\ pc[p] = "idle"
    /\ \A q \in Procs : q < p => pc[q] # "idle"
    /\ calls < MaxCalls

\* `alone` after p issues a request for type t
AloneAfterCall(p, t) ==
    [q \in Procs |->
        IF q = p THEN OthersOn(p, t) = {}
        ELSE IF q \in OthersOn(p, t) THEN FALSE ELSE alone[q]]

(* ------------------------------ handler ------------------------------- *)

\* the characters typePattern, ^[a-z0-9]+$, admits
LowerAlnum ==
    {"a", "b", "c", "d", "e", "f", "g", "h", "i", "j", "k", "l", "m",
     "n", "o", "p", "q", "r", "s", "t", "u", "v", "w", "x", "y", "z",
     "0", "1", "2", "3", "4", "5", "6", "7", "8", "9"}

\* mutant of validateEventType: any text that is not empty passes
validateEventTypeNonEmpty(s) == Len(s) >= 1

\* mutant of validateEventType: the pattern admits upper-case letters too
validateEventTypeAnyCase(s) ==
    Len(s) >= 1 /\ \A i \in 1..Len(s) :
        s[i] \in LowerAlnum \cup {"A", "B", "C", "D", "E", "F", "G", "H", "I",
                                  "J", "K", "L", "M", "N", "O", "P", "Q", "R",
                                  "S", "T", "U", "V", "W", "X", "Y", "Z"}

\* validateEventType: typePattern.MatchString on the text, a sequence of
\* characters
validateEventType(s) ==
    Len(s) >= 1 /\ \A i \in 1..Len(s) : s[i] \in LowerAlnum

\* c.ShouldBindJSON(&req) with Type bound as required: fails without a "type"
\* field and with an empty one
ShouldBindJSON(body) == body # <<>> /\ body[1] # <<>>

\* the two checks a Start or Finish handler makes before it calls the service
Accepted(body) == ShouldBindJSON(body) /\ validateEventType(body[1])

\* the event types of the model, spelled out
Spelling ==
    ("meeting" :> <<"m", "e", "e", "t", "i", "n", "g">>)
        @@ ("call" :> <<"c", "a", "l", "l">>)
        @@ ("task" :> <<"t", "a", "s", "k">>)
        @@ ("workout" :> <<"w", "o", "r", "k", "o", "u", "t">>)
        @@ ("meeting123" :> <<"m", "e", "e", "t", "i", "n", "g", "1", "2", "3">>)
        @@ ("42" :> <<"4", "2">>)
        @@ ("" :> <<>>)
        @@ ("Meeting" :> <<"M", "e", "e", "t", "i", "n", "g">>)
        @@ ("meetinG" :> <<"m", "e", "e", "t", "i", "n", "G">>)
        @@ ("meeting-1" :> <<"m", "e", "e", "t", "i", "n", "g", "-", "1">>)
        @@ ("meeting 1" :> <<"m", "e", "e", "t", "i", "n", "g", " ", "1">>)
        @@ (" " :> <<" ">>)
        @@ ("a_b" :> <<"a", "_", "b">>)

\* the body {"type": t}
TypeBody(t) == <<Spelling[t]>>

\* request bodies: no "type" field, an empty type, a type with an upper-case
\* letter, a type with a hyphen, and the bodies of the model's types
Bodies ==
    {<<>>, <<<<>>>>, <<<<"M", "e", "e", "t">>>>, <<<<"c", "a", "l", "l", "-", "1">>>>}
        \cup {TypeBody(t) : t \in Types}

\* EventHandler.Start: the status for what service.Start returned
StartStatus(err) ==
    IF err # NoError THEN StatusInternalServerError ELSE StatusOK

\* mutant of FinishStatus: the mongo.ErrNoDocuments branch is missing
FinishStatusNoNotFound(err) ==
    IF err # NoError THEN StatusInternalServerError ELSE StatusOK

\* EventHandler.Finish: the status for what service.Finish returned
FinishStatus(err) ==
    IF err = ErrNoDocuments THEN StatusNotFound
    ELSE IF err # NoError THEN StatusInternalServerError
    ELSE StatusOK

\* EventHandler.List: the status for what service.List returned
ListStatus(err) ==
    IF err # NoError THEN StatusInternalServerError ELSE StatusOK

\* the exchange of p once the handler has read the body and chosen a status
Exchange(p, body, status) ==
    [http EXCEPT ![p] = [body |-> body, query |-> NoQuery, status |-> status]]

\* the exchange of p once the List handler has read the query and chosen a
\* status
QueryExchange(p, query, status) ==
    [http EXCEPT ![p] = [body |-> <<>>, query |-> query, status |-> status]]

\* the largest limit EventHandler.List accepts
MaxLimit == 100

\* the value of a decimal digit
DigitValue ==
    ("0" :> 0) @@ ("1" :> 1) @@ ("2" :> 2) @@ ("3" :> 3) @@ ("4" :> 4)
        @@ ("5" :> 5) @@ ("6" :> 6) @@ ("7" :> 7) @@ ("8" :> 8) @@ ("9" :> 9)

\* the number a sequence of decimal digits denotes
RECURSIVE DecimalValue(_)
DecimalValue(s) ==
    IF s = <<>> THEN 0
    ELSE 10 * DecimalValue(SubSeq(s, 1, Len(s) - 1)) + DigitValue[s[Len(s)]]

\* strconv.Atoi on texts short enough to stay in the range of int: an
\* optional sign followed by one or more decimal digits, anything else is an
\* error
Atoi(s) ==
    LET signed == s # <<>> /\ s[1] \in {"+", "-"}
        digits == IF signed THEN Tail(s) ELSE s
    IN  IF digits = <<>> \/ \E i \in 1..Len(digits) : digits[i] \notin DOMAIN DigitValue
        THEN [ok |-> FALSE, n |-> 0]
        ELSE [ok |-> TRUE,
              n |-> IF signed /\ s[1] = "-"
                    THEN 0 - DecimalValue(digits) ELSE DecimalValue(digits)]

\* strconv.Itoa for a number that is not negative
RECURSIVE Itoa(_)
Itoa(n) ==
    LET digit == CHOOSE d \in DOMAIN DigitValue : DigitValue[d] = n % 10
    IN  IF n < 10 THEN <<digit>> ELSE Append(Itoa(n \div 10), digit)

\* c.Query(key): the text of the parameter, "" when the URL does not have it
Query(param) == IF param = <<>> THEN <<>> ELSE param[1]

\* EventHandler.List on the offset parameter: 0 when c.Query gives "",
\* else Atoi, rejected on an error and on a negative number
ParseOffset(text) ==
    IF text = <<>> THEN [ok |-> TRUE, n |-> 0]
    ELSE IF ~Atoi(text).ok \/ Atoi(text).n < 0 THEN [ok |-> FALSE, n |-> 0]
    ELSE Atoi(text)

\* EventHandler.List on the limit parameter: 0 when c.Query gives "", else
\* Atoi, rejected on an error, on a negative number and above MaxLimit
ParseLimit(text) ==
    IF text = <<>> THEN [ok |-> TRUE, n |-> 0]
    ELSE IF ~Atoi(text).ok \/ Atoi(text).n < 0 \/ Atoi(text).n > MaxLimit
    THEN [ok |-> FALSE, n |-> 0]
    ELSE Atoi(text)

(* ------------------------------- Init --------------------------------- *)

\* the service before its first request, the collection empty
ServiceInit ==
    /\ store = <<>>
    /\ clock = TicksPerMs
    /\ nextId = 1
    /\ pc = [p \in Procs |-> "idle"]
    /\ req = [p \in Procs |-> NoReq]
    /\ now = [p \in Procs |-> 0]
    /\ ret = [p \in Procs |-> NoRet]
    /\ http = [p \in Procs |-> NoHttp]
    /\ calls = 0
    /\ issued = [p \in Procs |-> 0]
    /\ alone = [p \in Procs |-> TRUE]
    /\ rival = [p \in Procs |-> FALSE]
    /\ last = [t \in Types |-> <<>>]
    /\ raced = FALSE
    /\ finishLog = <<>>

\* The service before its first request, in an application that serves.
Init == ServiceInit /\ Serving /\ script = <<>>

(* ------------------------- EventService.Start ------------------------- *)

\* mutant of FindActiveFilter: the filter asks for the wrong state
FindActiveFilterFinished(s, t) ==
    {i \in 1..Len(s) : s[i].type = t /\ s[i].state = Finished}

\* repo.FindActive's filter, bson.M{"type": eventType, "state": Active}: the
\* positions of the matching documents
FindActiveFilter(s, t) ==
    {i \in 1..Len(s) : s[i].type = t /\ s[i].state = Active}

\* service.Start(ctx, t), first statement, repo.FindActive:
\* FindOne({type, state: Active}).  With several matching documents the store
\* returns one of them.  A found event is returned by Start as it is; with
\* none, Start goes on to repo.Create.
StartCall(p, t) ==
    /\ pc[p] = "idle"
    /\ Accepted(TypeBody(t))
    /\ req' = [req EXCEPT ![p] = [op |-> "Start", type |-> t, offset |-> 0, limit |-> 0]]
    /\ calls' = calls + 1
    /\ issued' = [issued EXCEPT ![p] = ActiveCount(store, t)]
    /\ alone' = AloneAfterCall(p, t)
    /\ IF FindActiveFilter(store, t) = {}
       THEN /\ pc' = [pc EXCEPT ![p] = "CreateNow"]
            /\ ret' = ret
            /\ http' = Exchange(p, TypeBody(t), 0)
       ELSE \E i \in FindActiveFilter(store, t) :
              /\ pc' = [pc EXCEPT ![p] = "ret"]
              /\ ret' = [ret EXCEPT ![p] = [err |-> NoError, val |-> <<store[i]>>]]
              /\ http' = Exchange(p, TypeBody(t), StartStatus(NoError))
    /\ raced' = (raced \/ Races(p, t))
    /\ UNCHANGED <<appVars, script, store, clock, nextId, now, rival, last, finishLog>>

\* a Start request, as long as the run has calls and events left
StartFindActive(p, t) ==
    /\ Free(p)
    /\ Len(store) + PendingStarts < MaxEvents
    /\ StartCall(p, t)

\* repo.Create, first statement: StartedAt: time.Now(), a time not before
\* the last one read and not after latest.
CreateNowBy(p, latest) ==
    /\ pc[p] = "CreateNow"
    /\ \E t \in clock..latest :
         /\ clock' = t
         /\ now' = [now EXCEPT ![p] = t]
    /\ pc' = [pc EXCEPT ![p] = "CreateInsert"]
    /\ UNCHANGED <<appVars, script, store, nextId, req, ret, http, calls, issued, alone, rival, last, raced, finishLog>>

\* the ID of the struct repo.Create builds: the zero ObjectID, left out of
\* the document (omitempty), so that the store generates the _id
NilObjectID == 0

\* mutant of Created: the id the store generated is not copied to the struct
CreatedWithoutId(event, oid) == event

\* repo.Create after InsertOne: event.ID = result.InsertedID
Created(event, oid) == [event EXCEPT !.id = oid]

\* mutant of NextObjectID: the store hands out the same id again
NextObjectIDSame(oid) == oid

\* the _id the store generates after oid: a value it has not generated before
NextObjectID(oid) == oid + 1

\* mutant of InsertOne: the new document takes the place of the newest one
InsertOneReplacing(s, doc) ==
    IF s = <<>> THEN <<doc>> ELSE [s EXCEPT ![Len(s)] = doc]

\* collection.InsertOne: the collection with the document added
InsertOne(s, doc) == Append(s, doc)

\* mutant of StateString: every state that is not Active counts as finished
StateStringNoDefault(st) ==
    IF st = Active THEN "started" ELSE "finished"

\* State.String, the wire label of a state
StateString(st) ==
    IF st = Active THEN "started"
    ELSE IF st = Finished THEN "finished"
    ELSE "unknown"

\* the hexadecimal digits
HexDigit ==
    <<"0", "1", "2", "3", "4", "5", "6", "7", "8", "9", "a", "b", "c", "d", "e", "f">>

\* the last w hexadecimal digits of n
RECURSIVE HexOf(_, _)
HexOf(n, w) ==
    IF w = 0 THEN <<>> ELSE Append(HexOf(n \div 16, w - 1), HexDigit[(n % 16) + 1])

\* the number of hexadecimal digits of an ObjectID, which has 12 bytes
HexLen == 24

\* ObjectID.Hex
Hex(oid) == HexOf(oid, HexLen)

\* Event.ToResponse: the EventResponse of an event; FinishedAt is copied
\* when it is not nil and left out of the JSON when it is nil
ToResponse(e) ==
    [id |-> Hex(e.id),
     type |-> e.type,
     state |-> StateString(e.state),
     startedAt |-> e.startedAt,
     finishedAt |-> IF e.finishedAt # <<>> THEN e.finishedAt ELSE <<>>]

\* repo.Create's time.Now() within the time of the run
CreateNow(p) == CreateNowBy(p, MaxClock)

\* repo.Create: InsertOne.  The document holds the time in milliseconds; the
\* event returned is the struct built before the insert, with the id set.
CreateInsert(p) ==
    /\ pc[p] = "CreateInsert"
    /\ store' = InsertOne(store,
                          Event(nextId, req[p].type, Active, TruncMs(now[p]), <<>>))
    /\ nextId' = NextObjectID(nextId)
    /\ ret' = [ret EXCEPT ![p] =
                 [err |-> NoError,
                  val |-> <<Created(Event(NilObjectID, req[p].type, Active, now[p], <<>>),
                                    nextId)>>]]
    /\ http' = Exchange(p, http[p].body, StartStatus(ret'[p].err))
    /\ pc' = [pc EXCEPT ![p] = "ret"]
    /\ raced' = (raced \/ Races(p, req[p].type))
    /\ UNCHANGED <<appVars, script, clock, req, now, calls, issued, alone, rival, last, finishLog>>

(* ------------------------ EventService.Finish ------------------------- *)

\* mutant of FinishFilter: the filter does not look at the state
FinishFilterNoState(s, t) ==
    {i \in 1..Len(s) : s[i].type = t}

\* mutant of FinishFilter: the filter does not look at the type
FinishFilterAnyType(s, t) ==
    {i \in 1..Len(s) : s[i].state = Active}

\* repo.Finish's filter, bson.M{"type": eventType, "state": Active}
FinishFilter(s, t) ==
    {i \in 1..Len(s) : s[i].type = t /\ s[i].state = Active}

\* mutant of FinishSet: the update sets started_at as well
FinishSetRestarted(doc, t) ==
    [doc EXCEPT !.state = Finished, !.finishedAt = <<TruncMs(t)>>,
                !.startedAt = TruncMs(t)]

\* mutant of FinishSet: the update sets the state alone
FinishSetNoTime(doc, t) ==
    [doc EXCEPT !.state = Finished]

\* repo.Finish's update, $set {state: Finished, finished_at: now}
FinishSet(doc, t) ==
    [doc EXCEPT !.state = Finished, !.finishedAt = <<TruncMs(t)>>]

\* mutant of ReturnDocument: FindOneAndUpdate's default, the document as it
\* was before the update
ReturnDocumentBefore(before, after) == before

\* options.FindOneAndUpdate().SetReturnDocument(options.After)
ReturnDocument(before, after) == after

\* mutant of NotFound: the error is dropped, as FindActive drops it
NotFoundDropped == [err |-> NoError, val |-> <<>>]

\* repo.Finish and service.Finish on mongo.ErrNoDocuments:
\* return nil, mongo.ErrNoDocuments
NotFound == [err |-> ErrNoDocuments, val |-> <<>>]

\* service.Finish(ctx, t) calls repo.Finish, first statement:
\* now := time.Now(), a time not before the last one read and not after
\* latest.
FinishCallBy(p, t, latest) ==
    /\ pc[p] = "idle"
    /\ Accepted(TypeBody(t))
    /\ http' = Exchange(p, TypeBody(t), 0)
    /\ req' = [req EXCEPT ![p] = [op |-> "Finish", type |-> t, offset |-> 0, limit |-> 0]]
    /\ calls' = calls + 1
    /\ issued' = [issued EXCEPT ![p] = ActiveCount(store, t)]
    /\ alone' = AloneAfterCall(p, t)
    /\ \E c \in clock..latest :
         /\ clock' = c
         /\ now' = [now EXCEPT ![p] = c]
    /\ pc' = [pc EXCEPT ![p] = "FinishUpdate"]
    /\ UNCHANGED <<appVars, script, store, nextId, ret, rival, last, raced, finishLog>>

\* a Finish request, as long as the run has calls left, within the time of
\* the run
FinishNow(p, t) ==
    /\ Free(p)
    /\ FinishCallBy(p, t, MaxClock)

\* repo.Finish: FindOneAndUpdate({type, state: Active},
\* $set {state: Finished, finished_at: now}, ReturnDocument(After)), one atomic
\* step of the store; ErrNoDocuments when nothing matches.  service.Finish
\* hands the result on.
FinishUpdate(p) ==
    /\ pc[p] = "FinishUpdate"
    /\ IF FinishFilter(store, req[p].type) = {}
       THEN /\ ret' = [ret EXCEPT ![p] = NotFound]
            /\ UNCHANGED <<store, finishLog, rival>>
       ELSE \E i \in FinishFilter(store, req[p].type) :
              /\ store' = [store EXCEPT ![i] = FinishSet(@, now[p])]
              /\ ret' = [ret EXCEPT ![p] =
                           [err |-> NoError,
                            val |-> <<ReturnDocument(store[i], store'[i])>>]]
              /\ finishLog' = Append(finishLog, ret'[p].val[1])
              /\ rival' = [q \in Procs |->
                             IF /\ q \in OthersOn(p, req[p].type)
                                /\ pc[q] = "FinishUpdate"
                                /\ issued[p] > 0
                             THEN TRUE ELSE rival[q]]
    /\ http' = Exchange(p, http[p].body, FinishStatus(ret'[p].err))
    /\ pc' = [pc EXCEPT ![p] = "ret"]
    /\ raced' = (raced \/ Races(p, req[p].type))
    /\ UNCHANGED <<appVars, script, clock, nextId, req, now, calls, issued, alone, last>>

(* ------------------------- EventService.List -------------------------- *)

\* mutant of Matching: the type filter is never put into the query
MatchingAll(s, f) == 1..Len(s)

\* filter: bson.M{} or {"type": eventType}; the matching positions of s
Matching(s, f) ==
    {i \in 1..Len(s) : f = "" \/ s[i].type = f}

\* mutant of SortedLists: the sort key is started_at: 1, ascending
SortedListsAscending(s, f) ==
    LET idx == Matching(s, f)
        n   == Cardinality(idx)
    IN  { [k \in 1..n |-> s[o[k]]] :
            o \in { g \in [1..n -> idx] :
                      /\ \A a, b \in 1..n : a # b => g[a] # g[b]
                      /\ \A a, b \in 1..n :
                           a < b => s[g[a]].startedAt <= s[g[b]].startedAt } }

\* mutant of SortedLists: no sort option, the documents come in insertion order
SortedListsUnsorted(s, f) ==
    LET idx == Matching(s, f)
        n   == Cardinality(idx)
    IN  { [k \in 1..n |-> s[o[k]]] :
            o \in { g \in [1..n -> idx] :
                      \A a, b \in 1..n : a < b => g[a] < g[b] } }

\* The orders in which the store can return the matching documents under
\* SetSort(started_at: -1): every arrangement that is descending by
\* started_at (the order among equal started_at is the store's choice).
SortedLists(s, f) ==
    LET idx == Matching(s, f)
        n   == Cardinality(idx)
    IN  { [k \in 1..n |-> s[o[k]]] :
            o \in { g \in [1..n -> idx] :
                      /\ \A a, b \in 1..n : a # b => g[a] # g[b]
                      /\ \A a, b \in 1..n :
                           a < b => s[g[a]].startedAt >= s[g[b]].startedAt } }

\* mutant of Page: SetSkip is left out
PageNoSkip(full, offset, limit) ==
    IF limit > 0 /\ limit < Len(full)
    THEN SubSeq(full, 1, limit)
    ELSE full

\* mutant of Page: the cap is applied before the skip
PageLimitThenSkip(full, offset, limit) ==
    LET capped == IF limit > 0 /\ limit < Len(full)
                  THEN SubSeq(full, 1, limit)
                  ELSE full
    IN  SubSeq(capped, offset + 1, Len(capped))

\* SetSkip(offset) when offset > 0, SetLimit(limit) when limit > 0
Page(full, offset, limit) ==
    LET skipped == SubSeq(full, offset + 1, Len(full))
    IN  IF limit > 0 /\ limit < Len(skipped)
        THEN SubSeq(skipped, 1, limit)
        ELSE skipped

\* repo.List(ctx, offset, limit, eventType): the results the store can give,
\* one for each order it can return equal started_at in
RepoList(s, offset, limit, f) ==
    {Page(full, offset, limit) : full \in SortedLists(s, f)}

\* mutant of ServiceList: the service drops the newest event
ServiceListTail(events) == IF events = <<>> THEN <<>> ELSE Tail(events)

\* EventService.List: return s.repo.List(ctx, offset, limit, eventType)
ServiceList(events) == events

\* EventHandler.List with the query of the URL and the type filter f: the
\* handler parses offset and limit and answers 400 when one is rejected;
\* otherwise service.List(ctx, offset, limit, eventType) calls repo.List:
\* Find(filter, sort, skip, limit) and cursor.All, one snapshot of the
\* collection.
ListCall(p, query, f) ==
    /\ pc[p] = "idle"
    /\ calls' = calls + 1
    /\ LET offset == ParseOffset(Query(query.offset))
           limit  == ParseLimit(Query(query.limit))
       IN  IF ~offset.ok \/ ~limit.ok
           THEN /\ req' = [req EXCEPT ![p] = [op |-> "List", type |-> f,
                                              offset |-> 0, limit |-> 0]]
                /\ ret' = ret
                /\ http' = QueryExchange(p, query, StatusBadRequest)
           ELSE /\ req' = [req EXCEPT ![p] = [op |-> "List", type |-> f,
                                              offset |-> offset.n,
                                              limit |-> limit.n]]
                /\ \E events \in RepoList(store, offset.n, limit.n, f) :
                     ret' = [ret EXCEPT ![p] =
                               [err |-> NoError, val |-> ServiceList(events)]]
                /\ http' = QueryExchange(p, query, ListStatus(ret'[p].err))
    /\ pc' = [pc EXCEPT ![p] = "ret"]
    /\ UNCHANGED <<appVars, script, store, clock, nextId, now, issued, alone, rival, last, raced, finishLog>>

\* a List request, as long as the run has calls left
ListRequest(p, query, f) ==
    /\ Free(p)
    /\ ListCall(p, query, f)

\* a List request whose URL carries the numbers offset and limit in decimal
List(p, offset, limit, f) ==
    ListRequest(p, [offset |-> <<Itoa(offset)>>, limit |-> <<Itoa(limit)>>], f)

(* ------------------------------ response ------------------------------ *)

\* The handler writes the response (c.JSON); the request is over.
Respond(p) ==
    /\ pc[p] = "ret"
    /\ last' = IF req[p].type \notin Types
               THEN last
               ELSE IF req[p].op = "Start"
               THEN [last EXCEPT ![req[p].type] =
                       IF alone[p] /\ ret[p].err = NoError
                       THEN <<[ev |-> ret[p].val[1], created |-> now[p] # 0]>>
                       ELSE <<>>]
               ELSE IF req[p].op = "Finish"
               THEN [last EXCEPT ![req[p].type] = <<>>]
               ELSE last
    /\ pc' = [pc EXCEPT ![p] = "idle"]
    /\ req' = [req EXCEPT ![p] = NoReq]
    /\ ret' = [ret EXCEPT ![p] = NoRet]
    /\ http' = [http EXCEPT ![p] = NoHttp]
    /\ now' = [now EXCEPT ![p] = 0]
    /\ issued' = [issued EXCEPT ![p] = 0]
    /\ alone' = [alone EXCEPT ![p] = TRUE]
    /\ rival' = [rival EXCEPT ![p] = FALSE]
    /\ UNCHANGED <<appVars, script, store, clock, nextId, calls, raced, finishLog>>

(* ------------------------------- Next --------------------------------- *)

Next ==
    \E p \in Procs :
        \/ \E t \in Types : StartFindActive(p, t)
        \/ CreateNow(p)
        \/ CreateInsert(p)
        \/ \E t \in Types : FinishNow(p, t)
        \/ FinishUpdate(p)
        \/ \E offset \in 0..MaxPage, limit \in 0..MaxPage, f \in {""} \cup Types :
             List(p, offset, limit, f)
        \/ Respond(p)

Spec == Init /\ [][Next]_vars

(* ------------------ bad requests and storage failures ----------------- *)

\* EventHandler.Start and EventHandler.Finish with a body that fails
\* ShouldBindJSON or validateEventType: 400, and the service is not called.
BadRequest(p, op, body) ==
    /\ Free(p)
    /\ ~Accepted(body)
    /\ req' = [req EXCEPT ![p] = [op |-> op, type |-> "", offset |-> 0, limit |-> 0]]
    /\ calls' = calls + 1
    /\ http' = Exchange(p, body, StatusBadRequest)
    /\ pc' = [pc EXCEPT ![p] = "ret"]
    /\ UNCHANGED <<appVars, script, store, clock, nextId, now, ret, issued, alone, rival, last, raced, finishLog>>

\* mutant of NilErr: the error is replaced by one of the repository's own
NilErrWrapped(err) == [err |-> "repository error", val |-> <<>>]

\* FindActive, Finish and List on an error of the storage call:
\* return nil, err
NilErr(err) == [err |-> err, val |-> <<>>]

\* mutant of CreateOnError: the struct built for the insert is returned
\* together with the error
CreateOnErrorWithEvent(event, err) == [err |-> err, val |-> <<event>>]

\* repo.Create on an error of InsertOne: return nil, err
CreateOnError(event, err) == [err |-> err, val |-> <<>>]

\* service.Start when FindOne fails with err, an error other than
\* ErrNoDocuments: FindActive returns nil, err and Start hands it on.
FindActiveError(p, t, err) ==
    /\ Free(p)
    /\ Accepted(TypeBody(t))
    /\ req' = [req EXCEPT ![p] = [op |-> "Start", type |-> t, offset |-> 0, limit |-> 0]]
    /\ calls' = calls + 1
    /\ issued' = [issued EXCEPT ![p] = ActiveCount(store, t)]
    /\ alone' = AloneAfterCall(p, t)
    /\ ret' = [ret EXCEPT ![p] = NilErr(err)]
    /\ http' = Exchange(p, TypeBody(t), StartStatus(ret'[p].err))
    /\ pc' = [pc EXCEPT ![p] = "ret"]
    /\ UNCHANGED <<appVars, script, store, clock, nextId, now, rival, last, raced, finishLog>>

\* FindOne fails with a storage error
FindActiveFails(p, t) == FindActiveError(p, t, StorageError)

\* repo.Create when InsertOne fails with err: nothing is inserted, Create
\* returns nil, err and Start hands it on.
CreateInsertError(p, err) ==
    /\ pc[p] = "CreateInsert"
    /\ ret' = [ret EXCEPT ![p] =
                 CreateOnError(Event(NilObjectID, req[p].type, Active, now[p], <<>>),
                               err)]
    /\ http' = Exchange(p, http[p].body, StartStatus(ret'[p].err))
    /\ pc' = [pc EXCEPT ![p] = "ret"]
    /\ UNCHANGED <<appVars, script, store, clock, nextId, req, now, calls, issued, alone, rival, last, raced, finishLog>>

\* InsertOne fails with a storage error
CreateInsertFails(p) == CreateInsertError(p, StorageError)

\* repo.Finish when FindOneAndUpdate fails with err, an error other than
\* ErrNoDocuments: nothing is updated, Finish returns nil, err.
FinishUpdateError(p, err) ==
    /\ pc[p] = "FinishUpdate"
    /\ ret' = [ret EXCEPT ![p] = NilErr(err)]
    /\ http' = Exchange(p, http[p].body, FinishStatus(ret'[p].err))
    /\ pc' = [pc EXCEPT ![p] = "ret"]
    /\ UNCHANGED <<appVars, script, store, clock, nextId, req, now, calls, issued, alone, rival, last, raced, finishLog>>

\* FindOneAndUpdate fails with a storage error
FinishUpdateFails(p) == FinishUpdateError(p, StorageError)

\* repo.List when Find or cursor.All fails with err: List returns nil, err.
\* The URL of the request carries the numbers offset and limit in decimal,
\* as in List.
ListError(p, offset, limit, f, err) ==
    /\ Free(p)
    /\ req' = [req EXCEPT ![p] = [op |-> "List", type |-> f,
                                  offset |-> offset, limit |-> limit]]
    /\ calls' = calls + 1
    /\ ret' = [ret EXCEPT ![p] = NilErr(err)]
    /\ http' = QueryExchange(p, [offset |-> <<Itoa(offset)>>, limit |-> <<Itoa(limit)>>],
                              ListStatus(ret'[p].err))
    /\ pc' = [pc EXCEPT ![p] = "ret"]
    /\ UNCHANGED <<appVars, script, store, clock, nextId, now, issued, alone, rival, last, raced, finishLog>>

\* Find or cursor.All fails with a storage error
ListFails(p, offset, limit, f) == ListError(p, offset, limit, f, StorageError)

\* The service with clients that also send bad bodies and a store whose calls
\* can fail.
FaultNext ==
    \/ Next
    \/ \E p \in Procs :
          \/ \E op \in {"Start", "Finish"}, body \in Bodies : BadRequest(p, op, body)
          \/ \E t \in Types : FindActiveFails(p, t)
          \/ CreateInsertFails(p)
          \/ FinishUpdateFails(p)
          \/ \E offset \in 0..MaxPage, limit \in 0..MaxPage, f \in {""} \cup Types :
               ListFails(p, offset, limit, f)

FaultSpec == Init /\ [][FaultNext]_vars

(* ------------------- List on a populated collection ------------------- *)

\* started_at values of stored rows: three successive milliseconds
ListTimes == {TruncMs(t) : t \in TicksPerMs..(4 * TicksPerMs - 1)}

\* The collections earlier requests can have left behind: up to ListRows
\* rows in insertion order, of any type, started in any order of time (a
\* Start that loses the processor between time.Now and InsertOne inserts out
\* of clock order).  The newest row of a type is Active, the older rows of
\* the type were finished before it was started.
ListStores ==
    UNION { { [i \in 1..n |->
                 LET newest == \A j \in (i + 1)..n : g[j].type # g[i].type
                 IN  Event(i, g[i].type,
                           IF newest THEN Active ELSE Finished,
                           g[i].startedAt,
                           IF newest THEN <<>> ELSE <<g[i].startedAt>>)] :
              g \in [1..n -> [type : Types, startedAt : ListTimes]] } :
            n \in 0..ListRows }

\* The service with one of the collections of stores, one request before the
\* end of the run.
Populated(stores) ==
    /\ store \in stores
    /\ script = <<>>
    /\ clock = MaxClock
    /\ nextId = Len(store) + 1
    /\ pc = [p \in Procs |-> "idle"]
    /\ req = [p \in Procs |-> NoReq]
    /\ now = [p \in Procs |-> 0]
    /\ ret = [p \in Procs |-> NoRet]
    /\ http = [p \in Procs |-> NoHttp]
    /\ calls = MaxCalls - 1
    /\ issued = [p \in Procs |-> 0]
    /\ alone = [p \in Procs |-> TRUE]
    /\ rival = [p \in Procs |-> FALSE]
    /\ last = [t \in Types |-> <<>>]
    /\ raced = FALSE
    /\ finishLog = <<>>
    /\ Serving

\* The service with a collection earlier requests have left behind.
ListInit == Populated(ListStores)

ListNext ==
    \E p \in Procs :
        \/ \E offset \in 0..ListPage, limit \in 0..ListPage, f \in {""} \cup Types :
             List(p, offset, limit, f)
        \/ Respond(p)

ListSpec == ListInit /\ [][ListNext]_vars

(* ------------------- requests as the handlers read them --------------- *)

\* bodies of Start and Finish requests: no "type" field, and every text of
\* Spelling as the type
HandlerBodies == {<<>>} \cup {TypeBody(t) : t \in DOMAIN Spelling}

\* values of an offset or limit parameter: not in the URL, and in the URL
\* with the text "", 0, 2, 100, 101, -1, +3, 1.5, x1
Params ==
    {<<>>, <<<<>>>>, <<<<"0">>>>, <<<<"2">>>>, <<<<"1", "0", "0">>>>,
     <<<<"1", "0", "1">>>>, <<<<"-", "1">>>>, <<<<"+", "3">>>>,
     <<<<"1", ".", "5">>>>, <<<<"x", "1">>>>}

\* The service with one request on a populated collection, with any body
\* and any query a client can send.
HandlerNext ==
    \E p \in Procs :
        \/ \E t \in DOMAIN Spelling : StartFindActive(p, t)
        \/ CreateNow(p)
        \/ CreateInsert(p)
        \/ \E t \in DOMAIN Spelling : FinishNow(p, t)
        \/ FinishUpdate(p)
        \/ \E op \in {"Start", "Finish"}, body \in HandlerBodies : BadRequest(p, op, body)
        \/ \E offset \in Params, limit \in Params :
             ListRequest(p, [offset |-> offset, limit |-> limit], "")
        \/ Respond(p)

HandlerSpec == ListInit /\ [][HandlerNext]_vars

(* ------------------------- the wire representation -------------------- *)

\* c.JSON(http.StatusOK, event) and c.JSON(http.StatusOK, events): what the
\* handler of p writes for the events the service returned, each through
\* Event.MarshalJSON, that is ToResponse; one object for Start and Finish,
\* an array for List
Response(p) == [i \in 1..Len(ret[p].val) |-> ToResponse(ret[p].val[i])]

\* the most documents of a collection written by other programs too
WireRows == 2

\* number of rows of the collections Finish is repeated on
DrainRows == 3

\* state values of documents: Active, Finished, and two that are neither
WireStates == {Active, Finished, 2, 0 - 1}

\* started_at and finished_at values of such documents
WireTimes == {TruncMs(TicksPerMs), TruncMs(2 * TicksPerMs)}

\* Collections whose documents were written by this service or by another
\* program: up to rows documents of any state value, with or without
\* finished_at.
WireStores(rows) ==
    UNION { { [i \in 1..n |->
                 Event(i, g[i].type, g[i].state, g[i].startedAt, g[i].finishedAt)] :
              g \in [1..n -> [type : Types, state : WireStates,
                              startedAt : WireTimes,
                              finishedAt : {<<>>} \cup {<<t>> : t \in WireTimes}]] } :
            n \in 0..rows }

WireInit == Populated(WireStores(WireRows))

\* One request on such a collection.
WireNext ==
    \E p \in Procs :
        \/ \E t \in Types : StartFindActive(p, t)
        \/ CreateNow(p)
        \/ CreateInsert(p)
        \/ \E t \in Types : FinishNow(p, t)
        \/ FinishUpdate(p)
        \/ List(p, 0, 0, "")
        \/ Respond(p)

WireSpec == WireInit /\ [][WireNext]_vars

(* ------------------ Finish, repeated, after raced Starts -------------- *)

\* The collections Starts can have left behind when they raced: up to
\* DrainRows rows of any type that no Finish has touched yet, so that a type
\* has from none to DrainRows Active rows (every Start that read no Active
\* row before another one inserted adds one more).
DrainStores ==
    UNION { { [i \in 1..n |->
                 Event(i, g[i], Active, TruncMs(TicksPerMs), <<>>)] :
              g \in [1..n -> Types] } :
            n \in 0..DrainRows }

\* the requests of such a run: one Finish for every row and one more
DrainCalls == DrainRows + 1

\* The service with such a collection, at the start of a run.
DrainInit ==
    /\ store \in DrainStores
    /\ script = <<>>
    /\ clock = MaxClock
    /\ nextId = Len(store) + 1
    /\ pc = [p \in Procs |-> "idle"]
    /\ req = [p \in Procs |-> NoReq]
    /\ now = [p \in Procs |-> 0]
    /\ ret = [p \in Procs |-> NoRet]
    /\ http = [p \in Procs |-> NoHttp]
    /\ calls = 0
    /\ issued = [p \in Procs |-> 0]
    /\ alone = [p \in Procs |-> TRUE]
    /\ rival = [p \in Procs |-> FALSE]
    /\ last = [t \in Types |-> <<>>]
    /\ raced = FALSE
    /\ finishLog = <<>>
    /\ Serving

\* a Finish request of a run of DrainCalls requests, served by the first
\* free process
DrainFinish(p, t) ==
    /\ calls < DrainCalls
    /\ \A q \in Procs : q < p => pc[q] # "idle"
    /\ FinishCallBy(p, t, MaxClock)

\* Clients that send Finish requests only, one after the other or two at a
\* time.
DrainNext ==
    \E p \in Procs :
        \/ \E t \in Types : DrainFinish(p, t)
        \/ FinishUpdate(p)
        \/ Respond(p)

DrainSpec == DrainInit /\ [][DrainNext]_vars

(* ----------------------- cancelled storage calls ---------------------- *)

\* One request on a populated collection whose context can be cancelled
\* while a storage call is under way.
CancelNext ==
    \E p \in Procs :
        \/ \E t \in Types : StartFindActive(p, t)
        \/ \E t \in Types : FindActiveError(p, t, Canceled)
        \/ CreateNow(p)
        \/ CreateInsert(p)
        \/ CreateInsertError(p, Canceled)
        \/ \E t \in Types : FinishNow(p, t)
        \/ FinishUpdate(p)
        \/ FinishUpdateError(p, Canceled)
        \/ \E offset \in 0..MaxPage, limit \in 0..MaxPage, f \in {""} \cup Types :
             \/ List(p, offset, limit, f)
             \/ ListError(p, offset, limit, f, Canceled)
        \/ Respond(p)

\* the statements of a call that is under way: the goroutine of the request
\* runs on, and a storage call ends with a result or with an error
Proceed(p) ==
    \/ CreateNow(p)
    \/ CreateInsert(p)
    \/ CreateInsertError(p, Canceled)
    \/ FinishUpdate(p)
    \/ FinishUpdateError(p, Canceled)

CancelSpec ==
    ListInit /\ [][CancelNext]_vars /\ \A p \in Procs : WF_vars(Proceed(p))

(* ------------------------ one client, one script --------------------- *)

\* the client of the integration scenario
Client == 1

\* the ten requests of the integration test, in the order main runs them:
\* GET, start meeting, GET, start meeting again, GET, finish meeting, finish
\* workout (never started), start call, start task, GET
Script ==
    <<[op |-> "List", type |-> ""],
      [op |-> "Start", type |-> "meeting"],
      [op |-> "List", type |-> ""],
      [op |-> "Start", type |-> "meeting"],
      [op |-> "List", type |-> ""],
      [op |-> "Finish", type |-> "meeting"],
      [op |-> "Finish", type |-> "workout"],
      [op |-> "Start", type |-> "call"],
      [op |-> "Start", type |-> "task"],
      [op |-> "List", type |-> ""]>>

\* the requests of C29: the writes of the integration test without the
\* reads between them, the second finish being for the type just finished
C29_Sequence ==
    <<[op |-> "Start", type |-> "meeting"],
      [op |-> "Start", type |-> "meeting"],
      [op |-> "Finish", type |-> "meeting"],
      [op |-> "Finish", type |-> "meeting"],
      [op |-> "Start", type |-> "call"],
      [op |-> "Start", type |-> "task"],
      [op |-> "List", type |-> ""]>>

\* the latest time of the scenario: it spans up to three milliseconds
ScenarioClock == 4 * TicksPerMs - 1

\* the empty collection, and a client with one of the two sequences
ScenarioInit ==
    /\ ServiceInit
    /\ Serving
    /\ script \in {Script, C29_Sequence}

\* the client sends the next request of the script once the response to the
\* one before is written
ScenarioCall ==
    /\ calls < Len(script)
    /\ \/ /\ script[calls + 1].op = "Start"
          /\ StartCall(Client, script[calls + 1].type)
       \/ /\ script[calls + 1].op = "Finish"
          /\ FinishCallBy(Client, script[calls + 1].type, ScenarioClock)
       \/ /\ script[calls + 1].op = "List"
          /\ ListCall(Client, NoQuery, script[calls + 1].type)

ScenarioNext ==
    \/ ScenarioCall
    \/ CreateNowBy(Client, ScenarioClock)
    \/ CreateInsert(Client)
    \/ FinishUpdate(Client)
    \/ Respond(Client)

ScenarioSpec == ScenarioInit /\ [][ScenarioNext]_vars

(* --------------------- the application: start and end ----------------- *)

\* the variables of the service
serviceVars == <<store, clock, nextId, pc, req, now, ret, http, calls, script,
                 issued, alone, rival, last, raced, finishLog>>

\* The process at the first statement of main: MONGO_URI unset or set, on
\* any platform, built with or without the embedded binary.
AppInit ==
    /\ ServiceInit
    /\ script = <<>>
    /\ env \in [MONGO_URI : {"", ExternalURI},
                goos : Supported \cup {"freebsd"},
                mongodData : BOOLEAN]
    /\ mainPc = "getMongoURI"
    /\ tempDir = "none"
    /\ cmd = "none"
    /\ startRet = NoResult
    /\ uriRet = NoResult
    /\ client = "none"
    /\ notified = FALSE
    /\ sigPc = "waiting"
    /\ exited = ""

\* mutant of External: no cleanup function is returned
ExternalNoCleanup(externalURI) ==
    [uri |-> externalURI, cleanup |-> "nil", err |-> NoError]

\* getMongoURI with MONGO_URI set: return externalURI, func() {}, nil
External(externalURI) ==
    [uri |-> externalURI, cleanup |-> "noop", err |-> NoError]

\* getMongoURI, first statements: os.Getenv("MONGO_URI"); with a value it
\* returns, without one it calls db.StartEmbeddedMongo.
GetMongoURI ==
    /\ exited = "" /\ mainPc = "getMongoURI"
    /\ IF env.MONGO_URI # ""
       THEN /\ uriRet' = External(env.MONGO_URI)
            /\ mainPc' = "main"
       ELSE /\ uriRet' = uriRet
            /\ mainPc' = "MkdirTemp"
    /\ UNCHANGED <<serviceVars, env, tempDir, cmd, startRet, client, notified, sigPc, exited>>

\* StartEmbeddedMongo: os.MkdirTemp, which creates the directory or fails.
MkdirTemp ==
    /\ exited = "" /\ mainPc = "MkdirTemp"
    /\ \/ /\ tempDir' = "exists"
          /\ mainPc' = "goos"
          /\ startRet' = startRet
       \/ /\ tempDir' = tempDir
          /\ mainPc' = "startReturned"
          /\ startRet' = Failed("MkdirTemp")
    /\ UNCHANGED <<serviceVars, env, cmd, uriRet, client, notified, sigPc, exited>>

\* StartEmbeddedMongo: the switch on runtime.GOOS and the check of
\* len(mongodData); both error returns are plain returns.
ChooseBinary ==
    /\ exited = "" /\ mainPc = "goos"
    /\ IF env.goos \notin Supported
       THEN /\ startRet' = Failed("unsupported platform")
            /\ mainPc' = "startReturned"
       ELSE IF ~env.mongodData
       THEN /\ startRet' = Failed("binary not found")
            /\ mainPc' = "startReturned"
       ELSE /\ startRet' = startRet
            /\ mainPc' = "WriteFile"
    /\ UNCHANGED <<serviceVars, env, tempDir, cmd, uriRet, client, notified, sigPc, exited>>

\* os.RemoveAll(tempDir): the directory is removed, or the call fails and
\* the directory stays
RemoveAll(dir) == {"removed", dir}

\* StartEmbeddedMongo: os.WriteFile, os.Chmod (not on windows) and
\* os.MkdirAll, one after the other; on an error os.RemoveAll is called,
\* its result ignored, and the error returned.
PrepareFiles ==
    /\ exited = "" /\ mainPc \in {"WriteFile", "Chmod", "MkdirAll"}
    /\ \/ /\ mainPc' = IF mainPc = "WriteFile"
                        THEN IF env.goos # "windows" THEN "Chmod" ELSE "MkdirAll"
                        ELSE IF mainPc = "Chmod" THEN "MkdirAll"
                        ELSE "cmdStart"
          /\ UNCHANGED <<tempDir, startRet>>
       \/ /\ tempDir' \in RemoveAll(tempDir)
          /\ startRet' = Failed(mainPc)
          /\ mainPc' = "startReturned"
    /\ UNCHANGED <<serviceVars, env, cmd, uriRet, client, notified, sigPc, exited>>

\* StartEmbeddedMongo: cmd.Start(), which starts mongod or fails.
CmdStart ==
    /\ exited = "" /\ mainPc = "cmdStart"
    /\ \/ /\ cmd' = "running"
          /\ mainPc' = "select"
          /\ UNCHANGED <<tempDir, startRet>>
       \/ /\ cmd' = cmd
          /\ tempDir' \in RemoveAll(tempDir)
          /\ startRet' = Failed("cmd.Start")
          /\ mainPc' = "startReturned"
    /\ UNCHANGED <<serviceVars, env, uriRet, client, notified, sigPc, exited>>

\* cmd.Process.Kill()
Kill(process) == IF process = "none" THEN "none" ELSE "killed"

\* StartEmbeddedMongo: the select on time.After(2s) and ctx.Done() (10s);
\* after the two seconds it returns the URI and cleanupFunc, on ctx.Done it
\* calls cleanupFunc.
AwaitMongo ==
    /\ exited = "" /\ mainPc = "select"
    /\ \/ /\ startRet' = [uri |-> EmbeddedURI, cleanup |-> "cleanupFunc", err |-> NoError]
          /\ mainPc' = "startReturned"
       \/ /\ startRet' = startRet
          /\ mainPc' = "Kill"
    /\ UNCHANGED <<serviceVars, env, tempDir, cmd, uriRet, client, notified, sigPc, exited>>

\* cleanupFunc, first statement: cmd.Process.Kill(); the caller is
\* StartEmbeddedMongo after the timeout or the goroutine of
\* setupGracefulShutdown.
CleanupKill ==
    /\ exited = ""
    /\ \/ mainPc = "Kill" /\ mainPc' = "Wait" /\ sigPc' = sigPc
       \/ sigPc = "Kill" /\ sigPc' = "Wait" /\ mainPc' = mainPc
    /\ cmd' = Kill(cmd)
    /\ UNCHANGED <<serviceVars, env, tempDir, startRet, uriRet, client, notified, exited>>

\* cleanupFunc: cmd.Process.Wait() returns once mongod has ended.
CleanupWait ==
    /\ exited = ""
    /\ \/ mainPc = "Wait" /\ mainPc' = "RemoveAll" /\ sigPc' = sigPc
       \/ sigPc = "Wait" /\ sigPc' = "RemoveAll" /\ mainPc' = mainPc
    /\ UNCHANGED <<serviceVars, env, tempDir, cmd, startRet, uriRet, client, notified, exited>>

\* cleanupFunc, last statement: os.RemoveAll(tempDir), whose error is only
\* logged; then StartEmbeddedMongo returns the timeout error, and the
\* goroutine goes on to os.Exit.
CleanupRemoveAll ==
    /\ exited = ""
    /\ \/ /\ mainPc = "RemoveAll"
          /\ mainPc' = "startReturned"
          /\ startRet' = Failed("timeout")
          /\ sigPc' = sigPc
       \/ /\ sigPc = "RemoveAll"
          /\ sigPc' = "os.Exit"
          /\ UNCHANGED <<mainPc, startRet>>
    /\ tempDir' \in RemoveAll(tempDir)
    /\ UNCHANGED <<serviceVars, env, cmd, uriRet, client, notified, exited>>

\* getMongoURI after db.StartEmbeddedMongo: "", nil, err on an error, else
\* mongoURI, cleanup, nil.
StartReturned ==
    /\ exited = "" /\ mainPc = "startReturned"
    /\ uriRet' = IF startRet.err # NoError
                 THEN Failed(startRet.err)
                 ELSE [uri |-> startRet.uri, cleanup |-> startRet.cleanup, err |-> NoError]
    /\ mainPc' = "main"
    /\ UNCHANGED <<serviceVars, env, tempDir, cmd, startRet, client, notified, sigPc, exited>>

\* main after getMongoURI: log.Fatal on an error, which ends the process
\* with os.Exit(1); else defer mongoCleanup().
MainGotURI ==
    /\ exited = "" /\ mainPc = "main"
    /\ IF uriRet.err # NoError
       THEN exited' = "log.Fatal" /\ mainPc' = mainPc
       ELSE exited' = exited /\ mainPc' = "connectToMongoDB"
    /\ UNCHANGED <<serviceVars, env, tempDir, cmd, startRet, uriRet, client, notified, sigPc>>

\* main: connectToMongoDB (mongo.Connect and Ping); on an error log.Fatal,
\* os.Exit(1), and deferred calls do not run.
ConnectToMongoDB ==
    /\ exited = "" /\ mainPc = "connectToMongoDB"
    /\ \/ /\ client' = "connected"
          /\ mainPc' = "setupGracefulShutdown"
          /\ exited' = exited
       \/ /\ client' = client
          /\ mainPc' = mainPc
          /\ exited' = "log.Fatal"
    /\ UNCHANGED <<serviceVars, env, tempDir, cmd, startRet, uriRet, notified, sigPc>>

\* main: setupGracefulShutdown, signal.Notify and the goroutine that waits;
\* then defer cleanupConnection(client) and the set-up of the router.
SetupGracefulShutdown ==
    /\ exited = "" /\ mainPc = "setupGracefulShutdown"
    /\ notified' = TRUE
    /\ mainPc' = "startServer"
    /\ UNCHANGED <<serviceVars, env, tempDir, cmd, startRet, uriRet, client, sigPc, exited>>

\* startServer: r.Run(":8080") returns, always with an error (the port is
\* taken, the listener fails): log.Fatal, os.Exit(1), and deferred calls do
\* not run.
ServerFails ==
    /\ exited = "" /\ mainPc = "startServer"
    /\ exited' = "log.Fatal"
    /\ UNCHANGED <<serviceVars, env, mainPc, tempDir, cmd, startRet, uriRet, client, notified, sigPc>>

\* os.Interrupt or SIGTERM arrives: after signal.Notify the goroutine of
\* setupGracefulShutdown receives it, before it the signal ends the process.
Signal ==
    /\ exited = "" /\ sigPc = "waiting"
    /\ IF notified
       THEN sigPc' = "cleanupConnection" /\ exited' = exited
       ELSE sigPc' = sigPc /\ exited' = "signal"
    /\ UNCHANGED <<serviceVars, env, mainPc, tempDir, cmd, startRet, uriRet, client, notified>>

\* the goroutine of setupGracefulShutdown: cleanupConnection(client)
SignalDisconnect ==
    /\ exited = "" /\ sigPc = "cleanupConnection"
    /\ client' = "disconnected"
    /\ sigPc' = "mongoCleanup"
    /\ UNCHANGED <<serviceVars, env, mainPc, tempDir, cmd, startRet, uriRet, notified, exited>>

\* the goroutine of setupGracefulShutdown: mongoCleanup(), which is
\* cleanupFunc or the empty function
SignalMongoCleanup ==
    /\ exited = "" /\ sigPc = "mongoCleanup"
    /\ sigPc' = IF uriRet.cleanup = "cleanupFunc" THEN "Kill" ELSE "os.Exit"
    /\ UNCHANGED <<serviceVars, env, mainPc, tempDir, cmd, startRet, uriRet, client, notified, exited>>

\* the goroutine of setupGracefulShutdown: os.Exit(0)
SignalExit ==
    /\ exited = "" /\ sigPc = "os.Exit"
    /\ exited' = "os.Exit"
    /\ UNCHANGED <<serviceVars, env, mainPc, tempDir, cmd, startRet, uriRet, client, notified, sigPc>>

AppNext ==
    \/ GetMongoURI
    \/ MkdirTemp
    \/ ChooseBinary
    \/ PrepareFiles
    \/ CmdStart
    \/ AwaitMongo
    \/ CleanupKill
    \/ CleanupWait
    \/ CleanupRemoveAll
    \/ StartReturned
    \/ MainGotURI
    \/ ConnectToMongoDB
    \/ SetupGracefulShutdown
    \/ ServerFails
    \/ Signal
    \/ SignalDisconnect
    \/ SignalMongoCleanup
    \/ SignalExit

AppSpec == AppInit /\ [][AppNext]_vars

(* ------------------------------ claims -------------------------------- *)

\* p's service call has returned and its response is not written yet
Returned(p, op) == pc[p] = "ret" /\ req[p].op = op

\* p's call returned an event without an error
Ok(p) == ret[p].err = NoError /\ Len(ret[p].val) = 1

\* the step is the atomic update of a Finish by p
FinishStep(p) == pc[p] = "FinishUpdate" /\ pc'[p] = "ret"

\* the documents of s in state st
InState(s, st) == {i \in 1..Len(s) : s[i].state = st}

\* C1: in every state reachable by any interleaving of concurrent Start,
\* Finish and List requests, every type has at most one stored event whose
\* state is Active.
C1_AtMostOneActive ==
    \A t \in Types : ActiveCount(store, t) <= 1

\* C2: as long as no other request for the same type has executed between a
\* Start's FindActive and its Create, every type has at most one Active
\* event, however often Start is repeated.
C2_NonRacingAtMostOneActive ==
    ~raced => \A t \in Types : ActiveCount(store, t) <= 1

\* C2 witness: without any race, a repeated Start(t) has found the Active
\* event of t and returned it, and t has a Finished event from before.
C2_Witness ==
    /\ ~raced
    /\ \E p \in Procs :
         /\ Returned(p, "Start") /\ Ok(p)
         /\ now[p] = 0
         /\ issued[p] = 1
         /\ ActiveCount(store, req[p].type) = 1
         /\ \E i \in 1..Len(store) :
              store[i].type = req[p].type /\ store[i].state = Finished

\* C3: two Active rows of one type stay two Active rows as long as no
\* Finish of that type executes its update.
C3_TwoActivePersist ==
    [][\A t \in Types :
         (/\ ActiveCount(store, t) >= 2
          /\ ~(\E p \in Procs : FinishStep(p) /\ req[p].type = t))
         => ActiveCount(store', t) >= 2]_vars

\* C3 witness: two concurrent Start(t), issued when t had no Active event,
\* have both gone through Create, and t has two Active rows.
C3_Witness ==
    \E p, q \in Procs :
        /\ p # q
        /\ Returned(p, "Start") /\ Returned(q, "Start")
        /\ req[p].type = req[q].type
        /\ issued[p] = 0 /\ issued[q] = 0
        /\ now[p] # 0 /\ now[q] # 0
        /\ ret[p].val[1].id # ret[q].val[1].id
        /\ ActiveCount(store, req[p].type) = 2

\* C4: the first two requests of a run being Start(t) and, after it has
\* returned, Start(t) again, the second returns an event with the id and the
\* startedAt the first returned, and inserts no row.
C4_SecondStartSameEvent ==
    \A p \in Procs :
        (/\ Returned(p, "Start")
         /\ calls = 2
         /\ last[req[p].type] # <<>>)
        => /\ ret[p].val[1].id = last[req[p].type][1].ev.id
           /\ ret[p].val[1].startedAt = last[req[p].type][1].ev.startedAt
           /\ now[p] = 0
           /\ Len(store) = 1

\* C5 as stated: of concurrent Finish(t) calls issued while t has an Active
\* event, one succeeds and the others return NotFound: no call succeeds when
\* an overlapping one has (stated for the runs without a Start race).
C5_ExactlyOneFinishSucceeds ==
    \A p \in Procs :
        (/\ ~raced
         /\ Returned(p, "Finish") /\ Ok(p)
         /\ issued[p] >= 1)
        => ~rival[p]

\* C5 amended: a Finish(t) call succeeds exactly when a row of type t is
\* Active at the instant of its atomic update, and it then transitions
\* exactly one such row; otherwise it returns NotFound and changes nothing.
C5_FinishAtomic ==
    [][\A p \in Procs :
         FinishStep(p) =>
           LET t == req[p].type
               k == ActiveCount(store, t)
           IN  IF k = 0
               THEN /\ ret'[p].err = ErrNoDocuments
                    /\ store' = store
               ELSE /\ ret'[p].err = NoError
                    /\ ActiveCount(store', t) = k - 1
                    /\ Cardinality(InState(store', Finished))
                         = Cardinality(InState(store, Finished)) + 1]_vars

\* C5 witness: two overlapping Finish(t), both issued while t had an Active
\* event, have returned: one succeeded, the other got NotFound.
C5_Witness ==
    \E p, q \in Procs :
        /\ p # q
        /\ Returned(p, "Finish") /\ Returned(q, "Finish")
        /\ req[p].type = req[q].type
        /\ issued[p] >= 1 /\ issued[q] >= 1
        /\ Ok(p)
        /\ ret[q] = NotFound

\* C6: no two successful Finish calls return the same event id.
C6_NoEventFinishedTwice ==
    \A i, j \in 1..Len(finishLog) :
        i # j => finishLog[i].id # finishLog[j].id

\* C6 witness: two Finish calls of the same type have succeeded.
C6_Witness ==
    /\ Len(finishLog) >= 2
    /\ finishLog[1].type = finishLog[2].type

\* C7: a Finish(t) that executes when t has no Active event returns NotFound
\* with no event and leaves the store as it is; so does every Finish(t)
\* issued when t had no Active event that no other request for t overlaps.
C7_FinishWithoutActive ==
    [][\A p \in Procs :
         (/\ FinishStep(p)
          /\ \/ ActiveCount(store, req[p].type) = 0
             \/ issued[p] = 0 /\ alone[p])
         => /\ ret'[p].err = ErrNoDocuments
            /\ ret'[p].val = <<>>
            /\ store' = store]_vars

\* C7 witness: Finish(t) has returned NotFound where every event of type t is
\* Finished, and Finish(u) has returned NotFound where u was never started.
C7_Witness ==
    \E p, q \in Procs :
        /\ Returned(p, "Finish") /\ ret[p] = NotFound
        /\ \E i \in 1..Len(store) : store[i].type = req[p].type
        /\ ActiveCount(store, req[p].type) = 0
        /\ Returned(q, "Finish") /\ ret[q] = NotFound
        /\ \A i \in 1..Len(store) : store[i].type # req[q].type

\* C8: a Finish(t) that follows a Start(t) which created an event, with no
\* other request for t from that Start on, returns that event (same id),
\* Finished, with a finishedAt not earlier than its startedAt; and every
\* later List(0, 0, "") holds every event a Finish returned, field by field.
C8_StartThenFinish ==
    [][/\ \A p \in Procs :
            (/\ FinishStep(p)
             /\ alone[p]
             /\ last[req[p].type] # <<>>
             /\ last[req[p].type][1].created)
            => /\ ret'[p].err = NoError
               /\ Len(ret'[p].val) = 1
               /\ ret'[p].val[1].id = last[req[p].type][1].ev.id
               /\ ret'[p].val[1].type = req[p].type
               /\ ret'[p].val[1].state = Finished
               /\ ret'[p].val[1].finishedAt # <<>>
               /\ ret'[p].val[1].finishedAt[1] >= ret'[p].val[1].startedAt
               /\ \E i \in 1..Len(store') : store'[i] = ret'[p].val[1]
       /\ \A p \in Procs :
            (/\ pc[p] = "idle" /\ pc'[p] = "ret"
             /\ req'[p] = [op |-> "List", type |-> "", offset |-> 0, limit |-> 0])
            => \A k \in 1..Len(finishLog) :
                 \E j \in 1..Len(ret'[p].val) : ret'[p].val[j] = finishLog[k]]_vars

\* C8 witness: a Finish that followed a creating Start with nothing for its
\* type in between has returned that event, and a List(0, 0, "") issued
\* after the update has returned it too.
C8_Witness ==
    \E p, q \in Procs :
        /\ Returned(p, "Finish") /\ Ok(p)
        /\ alone[p]
        /\ last[req[p].type] # <<>>
        /\ last[req[p].type][1].created
        /\ ret[p].val[1].id = last[req[p].type][1].ev.id
        /\ ret[p].val[1].finishedAt[1] > ret[p].val[1].startedAt
        /\ Returned(q, "List")
        /\ req[q] = [op |-> "List", type |-> "", offset |-> 0, limit |-> 0]
        /\ \E j \in 1..Len(ret[q].val) : ret[q].val[j] = ret[p].val[1]

\* C9: every stored event that has a finishedAt has finishedAt >= startedAt.
C9_FinishedNotBeforeStarted ==
    \A i \in 1..Len(store) :
        store[i].finishedAt # <<>> => store[i].finishedAt[1] >= store[i].startedAt

\* C10: every stored event has a finishedAt if and only if its state is
\* Finished.
C10_FinishedAtIffFinished ==
    \A i \in 1..Len(store) :
        (store[i].finishedAt # <<>>) <=> (store[i].state = Finished)

\* C10 witness: the store holds a Finished event with a finishedAt and an
\* Active event without one.
C10_Witness ==
    \E i, j \in 1..Len(store) :
        /\ store[i].state = Finished /\ store[i].finishedAt # <<>>
        /\ store[j].state = Active /\ store[j].finishedAt = <<>>

\* the process whose statement the step executes
Acts(p) == pc'[p] # pc[p]

\* the type of the request p's step belongs to
TypeOf(p) == IF req[p].op = "none" THEN req'[p].type ELSE req[p].type

\* the step is the FindActive of a Start by p
FindActiveStep(p) == pc[p] = "idle" /\ req'[p].op = "Start"

\* the step is the InsertOne of a Start by p
InsertStep(p) == pc[p] = "CreateInsert" /\ pc'[p] = "ret"

\* C11: every stored event starts Active without a finishedAt, keeps its
\* place and its id, changes state only from Active to Finished, and once it
\* is Finished no step of any Start, Finish or List changes any of its fields.
C11_FinishedIsTerminal ==
    [][/\ Len(store') >= Len(store)
       /\ \A i \in 1..Len(store) :
            /\ store'[i].id = store[i].id
            /\ store[i].state = Finished => store'[i] = store[i]
            /\ store'[i].state # store[i].state
                 => store[i].state = Active /\ store'[i].state = Finished
       /\ \A i \in (Len(store) + 1)..Len(store') :
            store'[i].state = Active /\ store'[i].finishedAt = <<>>]_vars

\* C11 witness: after an event of type t was finished, a Start(t) has created
\* a new event and a further Finish(t) has finished that one; the first event
\* is still as its Finish returned it.
C11_Witness ==
    /\ Len(finishLog) = 2
    /\ finishLog[1].type = finishLog[2].type
    /\ finishLog[1].finishedAt # finishLog[2].finishedAt
    /\ \E i \in 1..Len(store) : store[i] = finishLog[1]

\* C12: a Start(t) issued when t has Finished events and no Active one goes
\* on to Create; Create inserts one new Active event of type t whose id
\* differs from the id of every event stored before, returns that id, and
\* leaves every event stored before as it was.
C12_StartAfterFinishCreates ==
    [][\A p \in Procs :
         /\ (/\ FindActiveStep(p)
             /\ ActiveCount(store, req'[p].type) = 0
             /\ \E i \in 1..Len(store) :
                  store[i].type = req'[p].type /\ store[i].state = Finished)
            => pc'[p] = "CreateNow" /\ store' = store
         /\ InsertStep(p)
            => /\ Len(store') = Len(store) + 1
               /\ \A i \in 1..Len(store) :
                    store'[i] = store[i] /\ store[i].id # store'[Len(store')].id
               /\ store'[Len(store')].type = req[p].type
               /\ store'[Len(store')].state = Active
               /\ ret'[p].val[1].id = store'[Len(store')].id]_vars

\* C12 witness: after Start(t) and Finish(t), a further Start(t) has created
\* an event with another id, and the finished event is as Finish returned it.
C12_Witness ==
    \E p \in Procs :
        /\ Returned(p, "Start") /\ Ok(p)
        /\ now[p] # 0
        /\ Len(finishLog) = 1
        /\ finishLog[1].type = req[p].type
        /\ finishLog[1].id # ret[p].val[1].id
        /\ \E i, j \in 1..Len(store) :
             /\ store[i] = finishLog[1]
             /\ store[j].id = ret[p].val[1].id /\ store[j].state = Active

\* C13: a step of a Start(t) or a Finish(t) leaves every stored event of
\* another type as it is, and events of different types have different ids.
C13_OtherTypesUntouched ==
    [][/\ \A p \in Procs :
            (Acts(p) /\ TypeOf(p) \in Types)
            => \A i \in 1..Len(store) :
                 store[i].type # TypeOf(p) => store'[i] = store[i]
       /\ \A i, j \in 1..Len(store') :
            store'[i].type # store'[j].type => store'[i].id # store'[j].id]_vars

\* C13 witness: after Start(a) and Start(b), Finish(a) has returned the event
\* of type a while the event of type b is stored Active under another id.
C13_Witness ==
    \E p \in Procs :
        /\ Returned(p, "Finish") /\ Ok(p)
        /\ \E i \in 1..Len(store) :
             /\ store[i].type # req[p].type
             /\ store[i].state = Active /\ store[i].finishedAt = <<>>
             /\ store[i].id # ret[p].val[1].id

\* a List request
ListReq(offset, limit, f) ==
    [op |-> "List", type |-> f, offset |-> offset, limit |-> limit]

\* the rows of sequence l, as a set
Rows(l) == {l[i] : i \in 1..Len(l)}

\* the stored rows the filter f admits
Admitted(f) == {e \in Rows(store) : f = "" \/ e.type = f}

Max(a, b) == IF a >= b THEN a ELSE b

Min(a, b) == IF a <= b THEN a ELSE b

\* C14: when the stored events have pairwise distinct startedAt,
\* List(0, 0, "") returns every stored event once, each with a startedAt
\* strictly greater than that of the event after it.
C14_ListStrictlyDescending ==
    \A p \in Procs :
        (/\ Returned(p, "List")
         /\ req[p] = ListReq(0, 0, "")
         /\ \A i, j \in 1..Len(store) :
              i # j => store[i].startedAt # store[j].startedAt)
        => /\ ret[p].err = NoError
           /\ Len(ret[p].val) = Len(store)
           /\ Rows(ret[p].val) = Rows(store)
           /\ \A a, b \in 1..Len(ret[p].val) :
                a < b => ret[p].val[a].startedAt > ret[p].val[b].startedAt

\* C14 witness: three events with distinct startedAt, inserted neither in
\* ascending nor in descending order of time, have been listed.
C14_Witness ==
    \E p \in Procs :
        /\ Returned(p, "List")
        /\ req[p] = ListReq(0, 0, "")
        /\ Len(store) = 3
        /\ store[1].startedAt < store[3].startedAt
        /\ store[3].startedAt < store[2].startedAt
        /\ ret[p].val = <<store[2], store[3], store[1]>>

\* C15 as stated: List(0, 0, "") returns all events in ascending order of
\* startedAt, the earliest first.
C15_ListAscending ==
    \A p \in Procs :
        (Returned(p, "List") /\ req[p] = ListReq(0, 0, ""))
        => /\ Rows(ret[p].val) = Rows(store)
           /\ \A a, b \in 1..Len(ret[p].val) :
                a < b => ret[p].val[a].startedAt <= ret[p].val[b].startedAt

\* C15 amended: List(0, 0, "") returns all events in descending order of
\* startedAt, the most recently started first (events with equal startedAt in
\* either order).
C15_ListDescending ==
    \A p \in Procs :
        (Returned(p, "List") /\ req[p] = ListReq(0, 0, ""))
        => /\ Len(ret[p].val) = Len(store)
           /\ Rows(ret[p].val) = Rows(store)
           /\ \A a, b \in 1..Len(ret[p].val) :
                a < b => ret[p].val[a].startedAt >= ret[p].val[b].startedAt

\* C15 witness: three events, the two inserted last started in the same
\* millisecond and later than the first, have been listed: the first inserted
\* comes last.
C15_Witness ==
    \E p \in Procs :
        /\ Returned(p, "List")
        /\ req[p] = ListReq(0, 0, "")
        /\ Len(store) = 3
        /\ store[1].startedAt < store[2].startedAt
        /\ store[2].startedAt = store[3].startedAt
        /\ ret[p].val[3] = store[1]

\* C16: with N stored events and no type filter, List(k, 0, "") returns the
\* full ordered list without its first k events, max(N - k, 0) events, and
\* List(0, m, "") with m > 0 returns the first min(N, m) events of it.
C16_OffsetOrLimit ==
    \A p \in Procs :
        (Returned(p, "List") /\ req[p].type = "")
        => LET k == req[p].offset
               m == req[p].limit
               N == Len(store)
           IN  /\ m = 0
                  => /\ Len(ret[p].val) = Max(N - k, 0)
                     /\ \E full \in SortedLists(store, "") :
                          ret[p].val = SubSeq(full, k + 1, N)
               /\ (k = 0 /\ m > 0)
                  => /\ Len(ret[p].val) = Min(N, m)
                     /\ \E full \in SortedLists(store, "") :
                          ret[p].val = SubSeq(full, 1, Min(N, m))

\* C16 witness: of three stored events List(2, 0, "") has returned one, the
\* earliest started.
C16_Witness ==
    \E p \in Procs :
        /\ Returned(p, "List")
        /\ req[p] = ListReq(2, 0, "")
        /\ Len(store) = 3
        /\ Len(ret[p].val) = 1
        /\ \A i \in 1..3 : ret[p].val[1].startedAt <= store[i].startedAt

\* C17: with offset k and limit m > 0, List(k, m, f) returns the events at
\* positions k+1 .. k+m of the ordered list of the events matching f:
\* min(m, max(N - k, 0)) events, N being the number of events matching f.
C17_SkipThenCap ==
    \A p \in Procs :
        (Returned(p, "List") /\ req[p].limit > 0)
        => LET k == req[p].offset
               m == req[p].limit
               N == Cardinality(Admitted(req[p].type))
           IN  /\ Len(ret[p].val) = Min(m, Max(N - k, 0))
               /\ \E full \in SortedLists(store, req[p].type) :
                    /\ Len(full) = N
                    /\ ret[p].val = SubSeq(full, k + 1, Min(k + m, N))

\* C17 witness: of three events of type f started at distinct times
\* List(1, 1, f) has returned the one in the middle.
C17_Witness ==
    \E p \in Procs :
        /\ Returned(p, "List")
        /\ req[p].offset = 1 /\ req[p].limit = 1 /\ req[p].type \in Types
        /\ Cardinality(Admitted(req[p].type)) = 3
        /\ Len(ret[p].val) = 1
        /\ \E e1, e2 \in Rows(store) :
             /\ e1.startedAt > ret[p].val[1].startedAt
             /\ e2.startedAt < ret[p].val[1].startedAt

\* C18: List(0, 0, f) with a type f returns exactly the stored events of type
\* f, whatever their state, in the order they have in a full list; with the
\* empty filter it returns the events of all types.
C18_TypeFilter ==
    \A p \in Procs :
        (/\ Returned(p, "List")
         /\ req[p].offset = 0 /\ req[p].limit = 0)
        => LET f == req[p].type
           IN  IF f = ""
               THEN Rows(ret[p].val) = Rows(store) /\ Len(ret[p].val) = Len(store)
               ELSE /\ Rows(ret[p].val) = {e \in Rows(store) : e.type = f}
                    /\ Len(ret[p].val) = Cardinality(Rows(ret[p].val))
                    /\ \E full \in SortedLists(store, "") :
                         ret[p].val = SelectSeq(full, LAMBDA e : e.type = f)

\* C18 witness: the store holds a Finished and an Active event of type f and
\* an event of another type started between them; List(0, 0, f) has returned
\* the two of type f.
C18_Witness ==
    \E p \in Procs :
        /\ Returned(p, "List")
        /\ req[p].offset = 0 /\ req[p].limit = 0 /\ req[p].type \in Types
        /\ Len(store) = 3
        /\ Len(ret[p].val) = 2
        /\ ret[p].val[1].state = Active /\ ret[p].val[2].state = Finished
        /\ \E e \in Rows(store) :
             /\ e.type # req[p].type
             /\ e.startedAt < ret[p].val[1].startedAt
             /\ e.startedAt > ret[p].val[2].startedAt

\* C19: when a handler has chosen its status, a Finish answers 404 exactly
\* when service.Finish returned mongo.ErrNoDocuments, 400 exactly when the body
\* has no type, an empty type or a type that fails validateEventType, 500 when
\* the storage call failed otherwise and 200 when it returned an event; a
\* Start answers 500 when a storage call failed and 200 when the service
\* returned an event, created or found.
C19_StatusCodes ==
    \A p \in Procs :
        pc[p] = "ret" =>
          /\ req[p].op = "Finish"
             => /\ (http[p].status = StatusNotFound) <=> (ret[p].err = ErrNoDocuments)
                /\ (http[p].status = StatusBadRequest)
                     <=> \/ http[p].body = <<>>
                         \/ http[p].body[1] = <<>>
                         \/ ~validateEventType(http[p].body[1])
                /\ ret[p].err = StorageError
                     => http[p].status = StatusInternalServerError
                /\ ret[p].err = NoError => http[p].status = StatusOK
          /\ req[p].op = "Start"
             => /\ ret[p].err = StorageError
                     => http[p].status = StatusInternalServerError
                /\ ret[p].err = NoError => http[p].status = StatusOK

\* C19 witness: a Finish for a type without an Active event is about to
\* answer 404 and a Finish with an invalid type is about to answer 400.
C19_Witness ==
    \E p, q \in Procs :
        /\ Returned(p, "Finish") /\ ret[p] = NotFound
        /\ http[p].status = StatusNotFound
        /\ Returned(q, "Finish") /\ ret[q] = NoRet
        /\ http[q].body # <<>> /\ http[q].body[1] # <<>>
        /\ http[q].status = StatusBadRequest

\* C20: a step in which a Start, Finish or List gets a storage error returns
\* no event with the error and leaves the store as it is, and every step that
\* changes the store ends a call that returns without an error: a call that
\* fails has changed nothing.
C20_FailureChangesNothing ==
    [][\A p \in Procs :
         /\ (Acts(p) /\ ret'[p].err = StorageError)
            => ret'[p].val = <<>> /\ store' = store
         /\ (Acts(p) /\ store' # store)
            => ret'[p].err = NoError /\ pc'[p] = "ret"]_vars

\* C20 witness: a Start found no Active event of its type in a store that
\* holds an event, its InsertOne failed, and it has returned the error and
\* no event; the handler answers 500.
C20_Witness ==
    \E p \in Procs :
        /\ Returned(p, "Start")
        /\ now[p] # 0
        /\ ret[p].err = StorageError /\ ret[p].val = <<>>
        /\ http[p].status = StatusInternalServerError
        /\ Len(store) = 1
        /\ finishLog = <<store[1]>>

\* p's Start or Finish request was turned down by the handler: 400, and the
\* service was not called
Rejected(p) ==
    pc[p] = "ret" /\ http[p].status = StatusBadRequest /\ ret[p] = NoRet

\* C21: a Start or Finish request passes validation if and only if its type
\* is a non-empty text of the letters a-z and the digits 0-9; "meeting123"
\* passes, and "Meeting", "meeting-1", "meeting 1" and the empty text are
\* turned down by both handlers, with 400 and no call of the service.
C21_TypeValidation ==
    \A p \in Procs :
        (pc[p] # "idle" /\ req[p].op \in {"Start", "Finish"} /\ http[p].body # <<>>) =>
            LET text == http[p].body[1]
                letters == {"a", "b", "c", "d", "e", "f", "g", "h", "i", "j",
                            "k", "l", "m", "n", "o", "p", "q", "r", "s", "t",
                            "u", "v", "w", "x", "y", "z"}
                digits == {"0", "1", "2", "3", "4", "5", "6", "7", "8", "9"}
                wellFormed == /\ text # <<>>
                              /\ \A i \in 1..Len(text) : text[i] \in letters \cup digits
            IN  /\ validateEventType(text) <=> wellFormed
                /\ wellFormed => (~Rejected(p) /\ req[p].type # "" /\ Spelling[req[p].type] = text)
                /\ ~wellFormed => (pc[p] = "ret" /\ Rejected(p))
                /\ text = Spelling["meeting123"] => ~Rejected(p)
                /\ text \in {Spelling["Meeting"], Spelling["meeting-1"],
                              Spelling["meeting 1"], Spelling[""]} => Rejected(p)

\* a Finish of "meeting 1" is turned down while the collection holds events
C21_Witness ==
    \E p \in Procs :
        /\ Returned(p, "Finish")
        /\ http[p].body = TypeBody("meeting 1")
        /\ Rejected(p)
        /\ store # <<>>

\* C22: the List handler accepts an offset only when the URL has none or its
\* text parses as an integer >= 0, and a limit only when the URL has none or
\* its text parses as an integer in 0..100; a parameter the URL does not have
\* counts as 0; any other value is answered with 400 without a query of the
\* store and is never replaced by a valid value.
C22_PaginationValidated ==
    \A p \in Procs :
        Returned(p, "List") =>
            LET q == http[p].query
                offsetOk == q.offset = <<>> \/ (Atoi(q.offset[1]).ok /\ Atoi(q.offset[1]).n >= 0)
                limitOk == q.limit = <<>> \/ (/\ Atoi(q.limit[1]).ok
                                              /\ Atoi(q.limit[1]).n >= 0
                                              /\ Atoi(q.limit[1]).n <= 100)
            IN  IF offsetOk /\ limitOk
                THEN /\ http[p].status = StatusOK
                     /\ ret[p].err = NoError
                     /\ req[p].offset = IF q.offset = <<>> THEN 0 ELSE Atoi(q.offset[1]).n
                     /\ req[p].limit = IF q.limit = <<>> THEN 0 ELSE Atoi(q.limit[1]).n
                ELSE /\ http[p].status = StatusBadRequest
                     /\ ret[p] = NoRet

\* C23: every Start that succeeds returns an event of the requested type in
\* state Active, on the wire "started", with an id that is not the zero id,
\* a startedAt that is set and no finishedAt, both when it created the event
\* and when it found it.
C23_StartReturnsActive ==
    \A p \in Procs :
        (Returned(p, "Start") /\ ret[p].err = NoError) =>
            /\ Len(ret[p].val) = 1
            /\ http[p].status = StatusOK
            /\ ret[p].val[1].type = req[p].type
            /\ ret[p].val[1].state = Active
            /\ StateString(ret[p].val[1].state) = "started"
            /\ ret[p].val[1].id # NilObjectID
            /\ ret[p].val[1].id \in {store[i].id : i \in 1..Len(store)}
            /\ ret[p].val[1].startedAt > 0
            /\ ret[p].val[1].finishedAt = <<>>

\* one Start has created an event and another has found that event
C23_Witness ==
    \E p, q \in Procs :
        /\ Returned(p, "Start") /\ Ok(p) /\ now[p] # 0
        /\ Returned(q, "Start") /\ Ok(q) /\ now[q] = 0
        /\ ret[q].val[1].id = ret[p].val[1].id

\* the ids of the documents of s
Ids(s) == {s[i].id : i \in 1..Len(s)}

\* C24: every Finish that succeeds, in any interleaving, returns the document
\* as it is after the update: of the requested type, Finished, with a
\* finishedAt, and with the id of a document that was Active for that type
\* when the update ran; it never returns the document as it was before.
C24_FinishReturnsUpdated ==
    [][\A p \in Procs :
         (FinishStep(p) /\ ret'[p].err = NoError) =>
            \E i \in 1..Len(store) :
               /\ store[i].type = req[p].type
               /\ store[i].state = Active
               /\ ret'[p].val = <<store'[i]>>
               /\ ret'[p].val[1] # store[i]
               /\ ret'[p].val[1].id = store[i].id
               /\ ret'[p].val[1].type = req[p].type
               /\ ret'[p].val[1].state = Finished
               /\ ret'[p].val[1].finishedAt # <<>>]_vars

\* a Finish has returned its event while a Start of the same type is on its
\* way to create the next one
C24_Witness ==
    \E p, q \in Procs :
        /\ Returned(p, "Finish") /\ Ok(p)
        /\ pc[q] \in {"CreateNow", "CreateInsert"}
        /\ req[q].type = req[p].type

\* C25: FindActive(t) returns no event and no error whenever no Active event
\* of type t is stored, also when Finished events of type t are stored (Start
\* then goes on to Create); when an Active event of type t is stored it
\* returns a stored event of type t in state Active; it never changes the
\* store.
C25_FindActive ==
    [][\A p \in Procs :
         FindActiveStep(p) =>
            /\ store' = store
            /\ IF \E i \in 1..Len(store) :
                    store[i].type = req'[p].type /\ store[i].state = Active
               THEN /\ pc'[p] = "ret"
                    /\ ret'[p].err = NoError
                    /\ Len(ret'[p].val) = 1
                    /\ \E i \in 1..Len(store) : ret'[p].val[1] = store[i]
                    /\ ret'[p].val[1].type = req'[p].type
                    /\ ret'[p].val[1].state = Active
               ELSE /\ pc'[p] = "CreateNow"
                    /\ ret'[p] = NoRet]_vars

\* FindActive found nothing for a type of which a Finished event is stored
C25_Witness ==
    \E p \in Procs :
        /\ pc[p] = "CreateNow"
        /\ alone[p]
        /\ \E i \in 1..Len(store) :
              store[i].type = req[p].type /\ store[i].state = Finished
        /\ \A i \in 1..Len(store) :
              store[i].type = req[p].type => store[i].state = Finished

\* C26: the ids of the stored events are pairwise distinct, also among the
\* events of one type; no step changes the id of a stored event, and a new
\* event gets an id no stored event has.
C26_IdsUniqueAndFixed ==
    [][/\ \A i, j \in 1..Len(store') : store'[i].id = store'[j].id => i = j
       /\ \A i \in 1..Len(store) :
             i <= Len(store') /\ store'[i].id = store[i].id
       /\ \A i \in (Len(store) + 1)..Len(store') :
             store'[i].id \notin Ids(store)]_vars

\* two events of one type are stored
C26_Witness ==
    /\ Len(store) = 2
    /\ store[1].type = store[2].type
    /\ store[1].id # store[2].id

\* C27: a Finish that succeeds changes the state and the finishedAt of one
\* stored event and nothing else: id, type and startedAt of that event stay,
\* and every other event stays as it is; no step of any operation changes
\* the startedAt of a stored event.
C27_FinishChangesStateAndTime ==
    [][/\ \A i \in 1..Len(store) :
             i <= Len(store') /\ store'[i].startedAt = store[i].startedAt
       /\ \A p \in Procs :
             (FinishStep(p) /\ ret'[p].err = NoError) =>
                /\ Len(store') = Len(store)
                /\ \E i \in 1..Len(store) :
                      /\ store'[i].id = store[i].id
                      /\ store'[i].type = store[i].type
                      /\ store'[i].startedAt = store[i].startedAt
                      /\ store'[i].state # store[i].state
                      /\ store'[i].finishedAt # store[i].finishedAt
                      /\ \A j \in 1..Len(store) : j # i => store'[j] = store[j]]_vars

\* an event was finished in a later millisecond than it was started in, and
\* another event is stored
C27_Witness ==
    /\ Len(store) = 2
    /\ \E i \in 1..Len(store) :
          /\ store[i].state = Finished
          /\ store[i].finishedAt # <<store[i].startedAt>>

\* C28: no step removes a stored event: the set of stored ids only grows, by
\* at most one id in a step, and only in the InsertOne of a Start, once per
\* Start; the steps of Finish and List add none.
C28_NothingRemoved ==
    [][/\ Ids(store) \subseteq Ids(store')
       /\ Len(store') >= Len(store)
       /\ Cardinality(Ids(store')) <= Cardinality(Ids(store)) + 1
       /\ Len(store') <= Len(store) + 1
       /\ Ids(store') # Ids(store) =>
             \E p \in Procs : InsertStep(p) /\ req[p].op = "Start"
       /\ \A p \in Procs :
             (Acts(p) /\ ~InsertStep(p)) => Ids(store') = Ids(store)]_vars

\* two events are stored, one was finished, and a List has returned both
C28_Witness ==
    /\ Len(store) = 2
    /\ store[1].state = Finished
    /\ \E p \in Procs :
          Returned(p, "List") /\ ret[p].err = NoError /\ Len(ret[p].val) = 2

\* the k-th request of C29's sequence, an op, has returned
After(k, op) == script = C29_Sequence /\ calls = k /\ Returned(Client, op)

\* the first six requests of the scenario: a started meeting; the same event
\* again; that event finished; not found; a started call; a started task
ScenarioResults ==
    /\ After(1, "Start") =>
          /\ Ok(Client) /\ http[Client].status = StatusOK
          /\ ret[Client].val[1].type = "meeting"
          /\ ret[Client].val[1].state = Active
          /\ Ids(store) = {ret[Client].val[1].id}
    /\ After(2, "Start") =>
          /\ Ok(Client) /\ http[Client].status = StatusOK
          /\ last["meeting"] # <<>>
          /\ ret[Client].val[1].id = last["meeting"][1].ev.id
          /\ ret[Client].val[1].state = Active
          /\ Len(store) = 1
    /\ After(3, "Finish") =>
          /\ Ok(Client) /\ http[Client].status = StatusOK
          /\ ret[Client].val[1].type = "meeting"
          /\ ret[Client].val[1].state = Finished
          /\ ret[Client].val[1].finishedAt # <<>>
          /\ Ids(store) = {ret[Client].val[1].id}
    /\ After(4, "Finish") =>
          /\ ret[Client] = NotFound /\ http[Client].status = StatusNotFound
          /\ Len(store) = 1 /\ store[1].state = Finished
    /\ After(5, "Start") =>
          /\ Ok(Client) /\ http[Client].status = StatusOK
          /\ ret[Client].val[1].type = "call"
          /\ ret[Client].val[1].state = Active
          /\ Len(store) = 2
    /\ After(6, "Start") =>
          /\ Ok(Client) /\ http[Client].status = StatusOK
          /\ ret[Client].val[1].type = "task"
          /\ ret[Client].val[1].state = Active
          /\ Len(store) = 3

\* the list is task (started), call (started), meeting (finished)
TaskCallMeeting(list) ==
    /\ Len(list) = 3
    /\ <<list[1].type, list[2].type, list[3].type>> = <<"task", "call", "meeting">>
    /\ <<list[1].state, list[2].state, list[3].state>> = <<Active, Active, Finished>>

\* C29 as stated: from the empty collection the scenario yields a started
\* meeting, the same id again, that event finished, not found, and then a
\* list of the 3 events in the order task, call, meeting.
C29_ScenarioExactOrder ==
    /\ ScenarioResults
    /\ After(7, "List") =>
          /\ ret[Client].err = NoError /\ http[Client].status = StatusOK
          /\ TaskCallMeeting(ret[Client].val)

\* C29, amended: the scenario yields a started meeting, the same id again,
\* that event finished, not found, and then a list of exactly the 3 stored
\* events, task (started), call (started) and meeting (finished), with
\* startedAt descending: in the order task, call, meeting when the three were
\* started in different milliseconds.
C29_ScenarioDescending ==
    /\ ScenarioResults
    /\ After(7, "List") =>
          /\ ret[Client].err = NoError /\ http[Client].status = StatusOK
          /\ Len(ret[Client].val) = 3
          /\ {ret[Client].val[i] : i \in 1..3} = {store[i] : i \in 1..3}
          /\ \E i, j, k \in 1..3 :
                TaskCallMeeting(<<ret[Client].val[i], ret[Client].val[j], ret[Client].val[k]>>)
          /\ \A i \in 1..2 :
                ret[Client].val[i].startedAt >= ret[Client].val[i + 1].startedAt
          /\ Cardinality({store[i].startedAt : i \in 1..3}) = 3 =>
                TaskCallMeeting(ret[Client].val)

\* the List of the scenario has returned three events started in three
\* different milliseconds
C29_Witness ==
    /\ After(7, "List")
    /\ Len(ret[Client].val) = 3
    /\ Cardinality({store[i].startedAt : i \in 1..Len(store)}) = 3

\* C30: every Start, Finish and List call that is under way returns; a call
\* whose storage call was cancelled returns the storage call's error as it
\* is, with no event (and the handler answers 500).
C30_CallsReturn ==
    /\ [](\A p \in Procs :
            (pc[p] = "ret" /\ ret[p] # NoRet /\ ret[p].err \notin {NoError, ErrNoDocuments}) =>
                /\ ret[p].err = Canceled
                /\ ret[p].val = <<>>
                /\ http[p].status = StatusInternalServerError)
    /\ \A p \in Procs : (pc[p] \notin {"idle", "ret"}) ~> (pc[p] = "ret")

\* a Finish was cancelled in FindOneAndUpdate and has returned the error,
\* and the event it was to finish is Active
C30_Witness ==
    \E p \in Procs :
        /\ Returned(p, "Finish")
        /\ ret[p] = [err |-> Canceled, val |-> <<>>]
        /\ \E i \in 1..Len(store) :
              store[i].type = req[p].type /\ store[i].state = Active

\* C31: in every response that carries events, each event is written with
\* state "started" for Active, "finished" for Finished and "unknown" for any
\* other state value, with a finishedAt exactly when the event has one and
\* then the same value, with the event's type and startedAt as they are, and
\* with an id that is not the zero id.
C31_WireRepresentation ==
    \A p \in Procs :
        (pc[p] = "ret" /\ ret[p].err = NoError) =>
            /\ Len(Response(p)) = Len(ret[p].val)
            /\ \A i \in 1..Len(ret[p].val) :
                  LET e == ret[p].val[i]
                      r == Response(p)[i]
                  IN  /\ e.state = Active => r.state = "started"
                      /\ e.state = Finished => r.state = "finished"
                      /\ e.state \notin {Active, Finished} => r.state = "unknown"
                      /\ (r.finishedAt # <<>>) <=> (e.finishedAt # <<>>)
                      /\ r.finishedAt = e.finishedAt
                      /\ r.type = e.type
                      /\ r.startedAt = e.startedAt
                      /\ Len(r.id) = HexLen
                      /\ \E k \in 1..Len(r.id) : r.id[k] # "0"
                      /\ \A j \in 1..Len(ret[p].val) :
                            ret[p].val[j].id # e.id => Response(p)[j].id # r.id

\* a List has returned an event whose state is neither Active nor Finished
\* and an event with a finishedAt
C31_Witness ==
    \E p \in Procs :
        /\ Returned(p, "List") /\ ret[p].err = NoError
        /\ \E i, j \in 1..Len(ret[p].val) :
              /\ ret[p].val[i].state \notin {Active, Finished}
              /\ ret[p].val[i].finishedAt = <<>>
              /\ ret[p].val[j].finishedAt # <<>>

\* C32: when the application runs with the embedded MongoDB, then however
\* it ends (a termination signal, a failed connection, a failed server
\* start) the mongod process has been stopped and its temporary directory
\* removed.
C32_TerminationCleansUp ==
    (exited # "" /\ uriRet.cleanup = "cleanupFunc") =>
        (cmd = "killed" /\ tempDir = "removed")

\* C33: with MONGO_URI set, getMongoURI returns that value, no error and a
\* cleanup that is there and does nothing, and the embedded MongoDB is never
\* started; with MONGO_URI unset or empty it starts the embedded MongoDB and
\* returns its URI, not empty, with its cleanup, or it returns an error with
\* an empty URI and no cleanup.
C33_GetMongoURI ==
    /\ env.MONGO_URI # "" =>
          (tempDir = "none" /\ cmd = "none" /\ startRet = NoResult)
    /\ uriRet # NoResult =>
          IF env.MONGO_URI # ""
          THEN uriRet = [uri |-> env.MONGO_URI, cleanup |-> "noop", err |-> NoError]
          ELSE \/ /\ uriRet.err = NoError
                  /\ uriRet.uri = EmbeddedURI /\ uriRet.uri # ""
                  /\ uriRet.cleanup = "cleanupFunc"
                  /\ cmd # "none"
               \/ /\ uriRet.err \notin {NoError, "pending"}
                  /\ uriRet.uri = ""
                  /\ uriRet.cleanup = "nil"

\* with MONGO_URI set the application was ended by a signal and the cleanup
\* getMongoURI returned has run
C33_Witness ==
    /\ env.MONGO_URI = ExternalURI
    /\ uriRet.uri = ExternalURI
    /\ exited = "os.Exit"

\* C39: after an error return of StartEmbeddedMongo the temporary directory
\* it created is not there and no mongod it started is running; a successful
\* return hands back the cleanup, and once that has run the process is
\* killed and the directory removed.
C39_StartEmbeddedMongoCleansUp ==
    startRet # NoResult =>
        IF startRet.err # NoError
        THEN startRet = Failed(startRet.err) /\ tempDir # "exists" /\ cmd # "running"
        ELSE /\ startRet.cleanup = "cleanupFunc"
             /\ sigPc = "os.Exit" => (cmd = "killed" /\ tempDir = "removed")

\* C34: as long as no request runs interleaved with another request for its
\* type, "type t has an Active event" moves as a machine of two states: a
\* Start without an Active event creates one document and t has exactly one
\* Active event; a Start with an Active event creates nothing and returns
\* that event; a Finish with an Active event makes that document Finished
\* and t has no Active event; a Finish without one returns NotFound and
\* changes nothing.
C34_TwoStateMachine ==
    [][\A p \in Procs :
         LET t == TypeOf(p)
             rows == ActiveIdx(store, t)
         IN  /\ (FindActiveStep(p) /\ alone'[p] /\ ~raced') =>
                   /\ store' = store
                   /\ Cardinality(rows) <= 1
                   /\ IF rows # {}
                      THEN /\ pc'[p] = "ret"
                           /\ ret'[p].err = NoError
                           /\ \A i \in rows : ret'[p].val = <<store[i]>>
                      ELSE pc'[p] = "CreateNow"
             /\ (InsertStep(p) /\ alone[p] /\ ~raced') =>
                   /\ rows = {}
                   /\ Len(store') = Len(store) + 1
                   /\ ActiveIdx(store', t) = {Len(store')}
                   /\ \A i \in 1..Len(store) : store'[i] = store[i]
                   /\ ret'[p].err = NoError
                   /\ ret'[p].val[1].id = store'[Len(store')].id
             /\ (FinishStep(p) /\ alone[p] /\ ~raced) =>
                   /\ Cardinality(rows) <= 1
                   /\ ActiveIdx(store', t) = {}
                   /\ Len(store') = Len(store)
                   /\ IF rows # {}
                      THEN /\ ret'[p].err = NoError
                           /\ \A i \in rows :
                                 /\ store'[i].state = Finished
                                 /\ ret'[p].val = <<store'[i]>>
                                 /\ \A j \in 1..Len(store) : j # i => store'[j] = store[j]
                      ELSE /\ ret'[p] = NotFound
                           /\ store' = store]_vars

\* without any interleaving a type went through Start, Finish and a second
\* Finish, which returned NotFound
C34_Witness ==
    /\ ~raced
    /\ \E p \in Procs :
          /\ Returned(p, "Finish") /\ ret[p] = NotFound /\ alone[p]
          /\ \A q \in Procs \ {p} : pc[q] = "idle"
          /\ \E i \in 1..Len(store) :
                store[i].type = req[p].type /\ store[i].state = Finished

\* the Finish calls for type t that have succeeded
Finishes(t) ==
    Cardinality({i \in 1..Len(finishLog) : finishLog[i].type = t})

\* the Active events of type t the run began with: every row of the
\* collection began Active, and Finish requests insert and remove nothing
BeganActive(t) ==
    Cardinality({i \in 1..Len(store) : store[i].type = t})

\* C35: a Finish(t) succeeds exactly when t has an Active event and returns
\* NotFound exactly when it has none; a successful Finish changes one stored
\* event and no other, and t has one Active event less, so one Finish leaves
\* at most one Active event only when there were k <= 2.  In a run of Finish
\* requests that began with k Active events of t (2 or 3 after a race of
\* Starts), when a Finish(t) returns NotFound exactly k Finish(t) calls have
\* succeeded, and never more than k succeed.
C35_FinishTakesOne ==
    /\ [][\A p \in Procs :
            FinishStep(p) =>
               LET t == req[p].type
                   k == ActiveCount(store, t)
               IN  /\ (ret'[p].err = NoError) <=> (k >= 1)
                   /\ (ret'[p] = NotFound) <=> (k = 0)
                   /\ k = 0 => store' = store
                   /\ k >= 1 =>
                         /\ ActiveCount(store', t) = k - 1
                         /\ (ActiveCount(store', t) <= 1) <=> (k <= 2)
                         /\ Finishes(t)' = Finishes(t) + 1
                         /\ Len(store') = Len(store)
                         /\ Cardinality({i \in 1..Len(store) : store'[i] # store[i]}) = 1
                         /\ \A i \in 1..Len(store) :
                               store'[i] # store[i] =>
                                  /\ store[i].type = t /\ store[i].state = Active
                                  /\ store'[i].state = Finished
                                  /\ ret'[p].val = <<store'[i]>>]_vars
    /\ [](\A t \in Types :
            LET k == BeganActive(t)
            IN  /\ Finishes(t) <= k
                /\ \A p \in Procs :
                      (Returned(p, "Finish") /\ req[p].type = t /\ ret[p] = NotFound)
                         => Finishes(t) = k)

\* three Finish calls for a type have succeeded one after the other, the
\* first of them leaving two Active events, and the fourth has returned
\* NotFound
C35_Witness ==
    \E p \in Procs :
        /\ Returned(p, "Finish") /\ ret[p] = NotFound
        /\ Finishes(req[p].type) = 3
        /\ ActiveCount(store, req[p].type) = 0
        /\ Len(store) = 3

\* C36 as stated: whenever a Start has returned an event, the stored
\* document with that id is Active, whatever Finish calls run beside it.
C36_ActiveAtReturn ==
    \A p \in Procs :
        (Returned(p, "Start") /\ Ok(p)) =>
            \E i \in 1..Len(store) :
                store[i].id = ret[p].val[1].id /\ store[i].state = Active

\* C36, amended: the event a Start returns is Active in the collection in
\* the step in which FindActive reads it or Create inserts it, and Start
\* returns it as Active; a Finish that runs after that step and before the
\* response finishes it, and the Start still returns it as Active.
C36_ActiveWhenRead ==
    [][\A p \in Procs :
         /\ ((FindActiveStep(p) \/ InsertStep(p)) /\ pc'[p] = "ret") =>
                /\ ret'[p].err = NoError
                /\ ret'[p].val[1].state = Active
                /\ \E i \in 1..Len(store') :
                      /\ store'[i].id = ret'[p].val[1].id
                      /\ store'[i].type = req'[p].type
                      /\ store'[i].state = Active
         /\ (Returned(p, "Start") /\ pc'[p] = "ret") => ret'[p] = ret[p]]_vars

\* a Start has returned an event as Active that a Finish has finished since
C36_Witness ==
    \E p, q \in Procs :
        /\ Returned(p, "Start") /\ Ok(p)
        /\ ret[p].val[1].state = Active
        /\ Returned(q, "Finish") /\ Ok(q)
        /\ ret[q].val[1].id = ret[p].val[1].id
        /\ ret[q].val[1].state = Finished

\* C37: a Start or Finish request whose type is missing, empty or not made
\* of a-z and 0-9 only is turned down before the service is called: the step
\* that takes the request answers 400, calls no storage operation (no
\* document read, written or created, no time read) and leaves the
\* collection as it is, and the only step that follows is the response.
C37_RejectedBeforeService ==
    [][\A p \in Procs :
         /\ (pc[p] = "idle" /\ pc'[p] # "idle" /\ req'[p].op \in {"Start", "Finish"}) =>
               LET body == http'[p].body
                   bad == \/ body = <<>>
                          \/ body[1] = <<>>
                          \/ \E i \in 1..Len(body[1]) : body[1][i] \notin LowerAlnum
               IN  bad => /\ pc'[p] = "ret"
                          /\ http'[p].status = StatusBadRequest
                          /\ ret'[p] = NoRet
                          /\ store' = store
                          /\ nextId' = nextId
                          /\ clock' = clock
                          /\ finishLog' = finishLog
         /\ (Rejected(p) /\ Acts(p)) =>
               /\ pc'[p] = "idle"
               /\ store' = store]_vars

\* a Start of "Meeting" is turned down while the collection holds events
C37_Witness ==
    \E p \in Procs :
        /\ Returned(p, "Start")
        /\ http[p].body = TypeBody("Meeting")
        /\ Rejected(p)
        /\ store # <<>>

\* C38: a List step leaves the collection as it is, and what the service
\* returns is a result of the repository's List for the same offset, limit
\* and type filter: nothing filtered out, reordered or cut off.
C38_ListDelegates ==
    [][\A p \in Procs :
         (pc[p] = "idle" /\ req'[p].op = "List") =>
            /\ store' = store
            /\ nextId' = nextId
            /\ ret'[p].err = NoError
            /\ \E full \in SortedLists(store, req'[p].type) :
                  ret'[p].val = Page(full, req'[p].offset, req'[p].limit)]_vars

\* a List of one type with offset 1 and limit 1 has returned one of the three
\* stored events
C38_Witness ==
    \E p \in Procs :
        /\ Returned(p, "List")
        /\ req[p] = [op |-> "List", type |-> "call", offset |-> 1, limit |-> 1]
        /\ Len(ret[p].val) = 1
        /\ Len(store) = 3

=========================================================================
